---- MODULE Spec2Model ----
(***************************************************************************)
(* Serial-bus diagnostic and teleoperation scripts for the SO-101          *)
(* leader/follower arms (Feetech STS3215 servos, SCS packet protocol).     *)
(*                                                                         *)
(* Three state machines share this module:                                 *)
(*   Spec       one request/response exchange on the serial bus at a time: *)
(*              which script issued it, the bytes it wrote, the bytes the  *)
(*              bus delivered back and what the script concluded;          *)
(*   SpecJog    the keyboard/jog controllers that command goal positions;  *)
(*   SpecTeleop the threaded so101_direct_teleoperation script (keyboard   *)
(*              thread and main control loop).                             *)
(***************************************************************************)
EXTENDS Integers, Sequences, FiniteSets, TLC

VARIABLES
    \* -- the serial bus (Spec)
    script,     \* "<file>.<function>" that issued the last bus request
    req,        \* the request as the call site means it (arguments of the call)
    packet,     \* bytes written to the serial port (<<>> when the vendor SDK builds them)
    response,   \* bytes delivered by the port afterwards (<<>>: nothing waiting)
    result,     \* what the script concluded from the response
    \* -- custom_configs/teleoperate_follower.py (SpecJog)
    tf_pc,              \* "start", "loop" (the while True), "done"
    port_open,          \* port_handler is open
    current_positions,  \* the list main() keeps, <<>> before the initial reads
    selected_motor,
    torque_enabled,
    goals,              \* <<motor, position>> written to address 42 by the last handler
    torque_writes,      \* <<motor, value>> written to address 40 by the last handler
    jogs,               \* number of 'w'/'s' presses handled so far
    \* -- custom_scripts/so101_direct_teleoperation.py (SpecTeleop)
    main_pc,            \* position of the main thread
    kb_pc,              \* position of the keyboard thread ("none": not started)
    lock,               \* holder of the threading.Lock: "none", "main" or "kb"
    teleoperation_active,
    DEBUG_MODE,
    current_teleoperation_active,   \* main's sample of teleoperation_active
    position_changed,   \* main's local of the current iteration
    access,             \* the accesses to the shared flags made by the last step
    key,                \* the key the keyboard thread handled last
    follower_torque,    \* last torque command that reached the follower: "on", "off", "unknown"
    ports_open,          \* the leader and follower ports are open
    \* -- position-reading routines of the teleoperation scripts (SpecRead)
    rd_script,    \* the routine called ("none": no call in progress)
    rd_outcomes,    \* what read2ByteTxRx did for each motor id, in id order
    rd_status,    \* "none", "returned" or "raised" (an exception left the routine)
    rd_positions,    \* the list the routine returned (<<>> when it raised)
    \* -- data of the teleoperation main loops (SpecLoop)
    loop_script,    \* the script whose main() runs ("none" before it starts)
    smoothed_positions,    \* smoothed_positions, a float per motor
    previous_positions,    \* previous_positions of so101_direct_teleoperation
    leader_readings,    \* per motor, the leader readings main() has taken so far
    sampled_active,    \* teleoperation_active as the last iteration saw it
    follower_positions,    \* the goal positions the last iteration sent (<<>>: none)
    iterations,    \* iterations of the main loop so far
    \* -- leaving an interactive control loop (SpecExit)
    ex_script,    \* the script whose control loop was left ("none": none yet)
    ex_path,    \* how the loop was left
    ex_log,    \* the commands issued from leaving the loop on, in order
    \* -- calibrate_offset of the direct and the fixed teleoperation script (SpecCalib)
    position_offsets,    \* the global position_offsets, per motor
    calibration_done,    \* the global calibration_done of so101_fixed_teleoperation
    cal_script,    \* the script whose calibrate_offset runs or ran last ("none": none yet)
    cal_attempt,    \* attempts of the retry loop made so far
    cal_leader,    \* what the reads of the leader did in the last attempt, per motor
    cal_follower,    \* the same for the follower
    cal_status,    \* "none", "retry", "True" or "False" (what calibrate_offset returned)
    \* -- perform_reset_sequence of direct_reset_follower_motors (SpecReset)
    reset_motors,    \* the list reset_motors of perform_reset_sequence
    rm_next,    \* the least motor id the reset loop has not passed yet
    rm_motor,    \* the motor of the last reset_motor call (0: none yet)
    rm_writes,    \* the register writes of that call, in order, each with its acknowledgement
    \* -- custom_scripts/teleoperate_follower.py, the keyboard controller (SpecCtf)
    ctf_pc,    \* where main() is: "start", "loop" or "done"
    ctf_torque_enabled,    \* the local torque_enabled of main()
    ctf_current_positions,    \* current_positions, the positions read at start, per motor name
    ctf_writes,    \* the register writes of the last step, in order
    \* -- power_cycle_motors.py (SpecCycle)
    pcm_pc,    \* where power_cycle_motors() is: "start", "ping", "cycle", "verify", "done"
    pcm_port,    \* the serial port: "none", "open" or "closed"
    pcm_path,    \* how the function was left, "" while it runs
    responsive_motors,    \* responsive_motors, in the order of MOTOR_IDS
    pcm_cycle,    \* cycle, the loop variable of range(1, cycles + 1)
    pcm_phase,    \* the inner loop of the cycle: 1 is the first, 2 the second
    pcm_index,    \* the place in responsive_motors of the next command
    pcm_sent,    \* the torque commands written to the port, in order
    \* -- the baud-rate sweeps of custom_configs (SpecSweep)
    sw_script,    \* the sweep that runs, "none" before
    sw_pc,    \* "open": about to open the next baud rate (or finished); "pings": inside the try block, port opened
    sw_index,    \* how many baud rates of the list were taken
    sw_attempted,    \* the baud rates serial.Serial was called with, in order
    sw_ser,    \* the handle bound to ser (numbered by baud rate index), 0 for none
    sw_open,    \* the handles that are open on the port
    \* -- so101_direct_teleoperation.py, the exchanges on the follower port (SpecPort)
    fp_op,    \* per thread, the routine it runs on the follower port, "none" between routines
    fp_step,    \* per thread, how many port calls of the routine are done
    fp_in_exchange,    \* per thread, a packet was written and its response not yet drained
    fp_buffer,    \* the responses waiting in follower_serial, each named by the thread whose packet it answers
    fp_read,    \* the last read(in_waiting): the reader and whose responses it got
    fp_open    \* follower_serial is open

busVars == <<script, req, packet, response, result>>
jogVars == <<tf_pc, port_open, current_positions, selected_motor, torque_enabled,
             goals, torque_writes, jogs>>
teleVars == <<main_pc, kb_pc, lock, teleoperation_active, DEBUG_MODE,
              current_teleoperation_active, position_changed, access, key,
              follower_torque, ports_open>>
readVars == <<rd_script, rd_outcomes, rd_status, rd_positions>>
loopVars == <<loop_script, smoothed_positions, previous_positions, leader_readings,
              sampled_active, follower_positions, iterations>>
exitVars == <<ex_script, ex_path, ex_log>>
calibVars == <<position_offsets, calibration_done, cal_script, cal_attempt, cal_leader, cal_follower, cal_status>>
resetVars == <<reset_motors, rm_next, rm_motor, rm_writes>>
ctfVars == <<ctf_pc, ctf_torque_enabled, ctf_current_positions, ctf_writes>>
pcmVars == <<pcm_pc, pcm_port, pcm_path, responsive_motors, pcm_cycle, pcm_phase, pcm_index, pcm_sent>>
sweepVars == <<sw_script, sw_pc, sw_index, sw_attempted, sw_ser, sw_open>>
portVars == <<fp_op, fp_step, fp_in_exchange, fp_buffer, fp_read, fp_open>>
notBus == <<jogVars, teleVars, readVars, loopVars, exitVars, calibVars, resetVars, ctfVars, pcmVars, sweepVars, portVars>>
notJog == <<busVars, teleVars, readVars, loopVars, exitVars, calibVars, resetVars, ctfVars, pcmVars, sweepVars, portVars>>
notTele == <<busVars, jogVars, readVars, loopVars, exitVars, calibVars, resetVars, ctfVars, pcmVars, sweepVars, portVars>>
notRead == <<busVars, jogVars, teleVars, loopVars, exitVars, calibVars, resetVars, ctfVars, pcmVars, sweepVars, portVars>>
notLoop == <<busVars, jogVars, teleVars, readVars, exitVars, calibVars, resetVars, ctfVars, pcmVars, sweepVars, portVars>>
notExit == <<busVars, jogVars, teleVars, readVars, loopVars, calibVars, resetVars, ctfVars, pcmVars, sweepVars, portVars>>
notCalib == <<busVars, jogVars, teleVars, readVars, loopVars, exitVars, resetVars, ctfVars, pcmVars, sweepVars, portVars>>
notReset == <<busVars, jogVars, teleVars, readVars, loopVars, exitVars, calibVars, ctfVars, pcmVars, sweepVars, portVars>>
notCtf == <<busVars, jogVars, teleVars, readVars, loopVars, exitVars, calibVars, resetVars, pcmVars, sweepVars, portVars>>
notPcm == <<busVars, jogVars, teleVars, readVars, loopVars, exitVars, calibVars, resetVars, ctfVars, sweepVars, portVars>>
notSweep == <<busVars, jogVars, teleVars, readVars, loopVars, exitVars, calibVars, resetVars, ctfVars, pcmVars, portVars>>
notPort == <<busVars, jogVars, teleVars, readVars, loopVars, exitVars, calibVars, resetVars, ctfVars, pcmVars, sweepVars>>

(***************************************************************************)
(* Program constants                                                       *)
(***************************************************************************)
ADDR_TORQUE_ENABLE == 40
ADDR_PRESENT_POSITION == 56
ADDR_GOAL_POSITION == 42
ADDR_OPERATING_MODE == 11
ADDR_MAX_TORQUE == 34
ADDR_GOAL_SPEED == 46
ADDR_RETURN_DELAY == 5
ADDR_ALARM_SHUTDOWN == 18
ADDR_LED == 41
CENTER_POSITION == 2048

MOTOR_IDS == 1..6

\* "no value was extracted" (Python None / variable never assigned)
NoValue == -1

(***************************************************************************)
(* Byte arithmetic as the scripts write it                                 *)
(***************************************************************************)
RECURSIVE SumSeq(_)
\* checksum = 0; for b in ...: checksum += b       (also Python sum())
SumSeq(s) == IF s = <<>> THEN 0 ELSE Head(s) + SumSeq(Tail(s))

\* (~x) & 0xFF on a Python int: ~x is -x-1, the mask takes it modulo 256
Not8_Identity(x) == x % 256
Not8(x) == (-x - 1) % 256

\* value & 0xFF
LowByte(value) == value % 256

\* (value >> 8) & 0xFF
HighByte_NoShift(value) == value % 256
HighByte(value) == (value \div 256) % 256

\* value = (value_h << 8) + value_l
Word(value_l, value_h) == (value_h * 256) + value_l

\* python slice p[2:-1] of a sequence (0-based 2..len-2 is 1-based 3..len-1)
Slice2ToLast(p) == SubSeq(p, 3, Len(p) - 1)

(***************************************************************************)
(* What the bus can deliver after a request addressed to motor id          *)
(***************************************************************************)
ByteSamples == {0, 1, 3, 128, 200, 255}
WordSamples == {0, 1, 255, 256, 500, 1000, 2048, 4095, 4096, 65535}
PosBytes == {0, 8, 255}

OtherId(id) == (id % 6) + 1

Heads == { <<255, 255>>, <<255, 0>>, <<0, 255>> }

Tails == { <<>>, <<2>>, <<2, 0>>, <<2, 0, 250>> }
           \cup { <<4, 0, lo, hi, 0>> : lo \in PosBytes, hi \in PosBytes }

Responses(id) ==
    { <<>>, <<0>> }
      \cup { h \o <<r>> \o t : h \in Heads, r \in {id, OtherId(id)}, t \in Tails }

(***************************************************************************)
(* custom_scripts/direct_reset_follower_motors.py                          *)
(***************************************************************************)
\* len(response) >= n and response[0] == 0xFF and response[1] == 0xFF and response[2] == motor_id
StatusOK(resp, motor_id, n) ==
    /\ Len(resp) >= n
    /\ resp[1] = 255
    /\ resp[2] = 255
    /\ resp[3] = motor_id

write_byte_packet(motor_id, address, value) ==
    LET checksum == 255 - ((motor_id + 4 + 3 + address + value) % 256)
    IN  <<255, 255, motor_id, 4, 3, address, value, checksum>>

write_word_packet(motor_id, address, value) ==
    LET value_l == LowByte(value)
        value_h == HighByte(value)
        checksum == 255 - ((motor_id + 5 + 3 + address + value_l + value_h) % 256)
    IN  <<255, 255, motor_id, 5, 3, address, value_l, value_h, checksum>>

read_word_packet(motor_id, address, length) ==
    LET checksum == 255 - ((motor_id + 4 + 2 + address + length) % 256)
    IN  <<255, 255, motor_id, 4, 2, address, length, checksum>>

ping_motor_packet_LenParams(motor_id) ==
    LET checksum == 255 - ((motor_id + 0 + 1) % 256)
    IN  <<255, 255, motor_id, 0, 1, checksum>>
ping_motor_packet(motor_id) ==
    LET checksum == 255 - ((motor_id + 2 + 1) % 256)
    IN  <<255, 255, motor_id, 2, 1, checksum>>

\* the request as its call site means it
Req(op, id, reg, addr, value, nbytes) ==
    [op |-> op, id |-> id, reg |-> reg, addr |-> addr, value |-> value, nbytes |-> nbytes]
NoReq == Req("none", 0, "none", 0, 0, 0)
PingReq(id) == Req("ping", id, "none", 0, 0, 0)

\* what the script concluded: ok = it reported/returned success,
\* value = the register value it extracted (NoValue: none)
Res(ok, value) == [ok |-> ok, value |-> value]

\* One blocking exchange: the function writes pkt, waits, takes what the port
\* delivered and concludes res.  The bus is free (no exchange in progress).
Exchange(s, rq, pkt, r, res) ==
    /\ script' = s
    /\ req' = rq
    /\ packet' = pkt
    /\ response' = r
    /\ result' = res
    /\ UNCHANGED notBus

\* no exchange in progress: the port is free for the next request
Idle == script = "none"

\* the function returns: its locals (packet, response) are dropped
Return ==
    /\ script # "none"
    /\ script' = "none"
    /\ req' = NoReq
    /\ packet' = <<>>
    /\ response' = <<>>
    /\ result' = Res(FALSE, NoValue)
    /\ UNCHANGED notBus

\* registers reset_motor / test_motor_movement write one byte to
DRByteRegs ==
    { <<"torque_enable", ADDR_TORQUE_ENABLE>>, <<"operating_mode", ADDR_OPERATING_MODE>>,
      <<"return_delay", ADDR_RETURN_DELAY>>, <<"alarm_shutdown", ADDR_ALARM_SHUTDOWN>>,
      <<"led", ADDR_LED>> }
\* registers they write two bytes to
DRWordRegs ==
    { <<"max_torque", ADDR_MAX_TORQUE>>, <<"goal_speed", ADDR_GOAL_SPEED>>,
      <<"goal_position", ADDR_GOAL_POSITION>> }

DR_write_byte ==
    /\ Idle
    /\ \E motor_id \in MOTOR_IDS, ra \in DRByteRegs, value \in ByteSamples :
      \E r \in Responses(motor_id) :
        Exchange("direct_reset_follower_motors.write_byte",
                 Req("write", motor_id, ra[1], ra[2], value, 1),
                 write_byte_packet(motor_id, ra[2], value),
                 r,
                 Res(r # <<>> /\ StatusOK(r, motor_id, 6), NoValue))

DR_write_word ==
    /\ Idle
    /\ \E motor_id \in MOTOR_IDS, ra \in DRWordRegs, value \in WordSamples :
      \E r \in Responses(motor_id) :
        Exchange("direct_reset_follower_motors.write_word",
                 Req("write", motor_id, ra[1], ra[2], value, 2),
                 write_word_packet(motor_id, ra[2], value),
                 r,
                 Res(r # <<>> /\ StatusOK(r, motor_id, 6), NoValue))

DR_read_word ==
    /\ Idle
    /\ \E motor_id \in MOTOR_IDS : \E r \in Responses(motor_id) :
        Exchange("direct_reset_follower_motors.read_word",
                 Req("read", motor_id, "present_position", ADDR_PRESENT_POSITION, 0, 2),
                 read_word_packet(motor_id, ADDR_PRESENT_POSITION, 2),
                 r,
                 IF r # <<>> /\ StatusOK(r, motor_id, 8)
                   THEN Res(TRUE, Word(r[6], r[7]))
                   ELSE Res(FALSE, NoValue))

DR_ping_motor ==
    /\ Idle
    /\ \E motor_id \in MOTOR_IDS : \E r \in Responses(motor_id) :
        Exchange("direct_reset_follower_motors.ping_motor",
                 PingReq(motor_id),
                 ping_motor_packet(motor_id),
                 r,
                 Res(r # <<>> /\ StatusOK(r, motor_id, 6), NoValue))

(***************************************************************************)
(* custom_scripts/power_cycle_motors.py                                    *)
(***************************************************************************)
set_torque_packet(motor_id, value) ==
    LET checksum == 255 - ((motor_id + 4 + 3 + ADDR_TORQUE_ENABLE + value) % 256)
    IN  <<255, 255, motor_id, 4, 3, ADDR_TORQUE_ENABLE, value, checksum>>

PC_ping_motor ==
    /\ Idle
    /\ \E motor_id \in MOTOR_IDS : \E r \in Responses(motor_id) :
        Exchange("power_cycle_motors.ping_motor",
                 PingReq(motor_id),
                 ping_motor_packet(motor_id),
                 r,
                 Res(r # <<>> /\ StatusOK(r, motor_id, 6), NoValue))

PC_set_torque ==
    /\ Idle
    /\ \E motor_id \in MOTOR_IDS, enable \in BOOLEAN : \E r \in Responses(motor_id) :
        LET value == IF enable THEN 1 ELSE 0
        IN  Exchange("power_cycle_motors.set_torque",
                     Req("write", motor_id, "torque_enable", ADDR_TORQUE_ENABLE, value, 1),
                     set_torque_packet(motor_id, value),
                     r,
                     Res(r # <<>> /\ StatusOK(r, motor_id, 6), NoValue))

(***************************************************************************)
(* custom_configs/follower_arm_controller.py  (FollowerArmController)      *)
(***************************************************************************)
\* checksum = 0; for b in pkt[2:-1]: checksum += b; pkt.append((~checksum) & 0xFF)
\* pkt is the packet WITHOUT its checksum byte, so [2:-1] stops before its last byte
AppendLoopChecksum(pkt) == Append(pkt, Not8(SumSeq(Slice2ToLast(pkt))))

\* position = max(0, min(4095, position))
Min(a, b) == IF a < b THEN a ELSE b
Max(a, b) == IF a > b THEN a ELSE b
Clamp4095(position) == Max(0, Min(4095, position))

PositionArgs == {-50, 0, 74, 255, 256, 2048, 3014, 4095, 4145}

FAC_ping_motors ==
    /\ Idle
    /\ \E motor_id \in MOTOR_IDS : \E r \in Responses(motor_id) :
        Exchange("follower_arm_controller.ping_motors",
                 PingReq(motor_id),
                 ping_motor_packet(motor_id),
                 r,
                 Res(r # <<>> /\ StatusOK(r, motor_id, 6), NoValue))

FAC_read_positions ==
    /\ Idle
    /\ \E motor_id \in MOTOR_IDS : \E r \in Responses(motor_id) :
        Exchange("follower_arm_controller.read_positions",
                 Req("read", motor_id, "present_position", 56, 0, 2),
                 AppendLoopChecksum(<<255, 255, motor_id, 4, 2, 56, 2>>),
                 r,
                 IF r # <<>> /\ StatusOK(r, motor_id, 8)
                   THEN Res(TRUE, r[6] + (r[7] * 256))
                   ELSE Res(FALSE, NoValue))

FAC_set_position ==
    /\ Idle
    /\ \E motor_id \in MOTOR_IDS, arg \in PositionArgs : \E r \in Responses(motor_id) :
        LET position == Clamp4095(arg)
        IN  Exchange("follower_arm_controller.set_position",
                     Req("write", motor_id, "goal_position", 42, position, 2),
                     AppendLoopChecksum(<<255, 255, motor_id, 5, 3, 42,
                                          LowByte(position), HighByte(position)>>),
                     r,
                     Res(r # <<>> /\ StatusOK(r, motor_id, 6), NoValue))

FAC_set_torque ==
    /\ Idle
    /\ \E motor_id \in MOTOR_IDS, enable \in BOOLEAN : \E r \in Responses(motor_id) :
        LET torque_value == IF enable THEN 1 ELSE 0
        IN  Exchange("follower_arm_controller.set_torque",
                     Req("write", motor_id, "torque_enable", 40, torque_value, 1),
                     AppendLoopChecksum(<<255, 255, motor_id, 4, 3, 40, torque_value>>),
                     r,
                     Res(r # <<>> /\ StatusOK(r, motor_id, 6), NoValue))

(***************************************************************************)
(* custom_configs: final_move_test.py, simple_move_test.py and             *)
(* test_move_follower.py build their packets with the same loop            *)
(***************************************************************************)
\* 16-bit present positions a validated read can have stored
ReadPositions == { Word(lo, hi) : lo \in PosBytes, hi \in PosBytes }

\* final_move_test.move_gripper: the three goal writes after the position read
\* (current_position is the validated reading, or the default 2048)
FMV_goal_positions(current_position) ==
    { Min(4000, current_position + 500), Max(0, current_position - 500), current_position }

FMV_move_gripper_read ==
    /\ Idle
    /\ \E r \in Responses(6) :
        Exchange("final_move_test.move_gripper",
                 Req("read", 6, "present_position", 56, 0, 2),
                 AppendLoopChecksum(<<255, 255, 6, 4, 2, 56, 2>>),
                 r,
                 IF r # <<>> /\ StatusOK(r, 6, 8)
                   THEN Res(TRUE, r[6] + (r[7] * 256))
                   ELSE Res(FALSE, NoValue))

FMV_move_gripper_write ==
    /\ Idle
    /\ \E current_position \in ReadPositions \cup {2048} :
       \E position \in FMV_goal_positions(current_position) :
        Exchange("final_move_test.move_gripper",
                 Req("write", 6, "goal_position", 42, position, 2),
                 AppendLoopChecksum(<<255, 255, 6, 5, 3, 42,
                                      LowByte(position), HighByte(position)>>),
                 <<>>,
                 Res(FALSE, NoValue))

FMV_move_gripper_torque ==
    /\ Idle
    /\ \E value \in {0, 1} :
        Exchange("final_move_test.move_gripper",
                 Req("write", 6, "torque_enable", 40, value, 1),
                 AppendLoopChecksum(<<255, 255, 6, 4, 3, 40, value>>),
                 <<>>,
                 Res(FALSE, NoValue))

\* simple_move_test.test_move_motor(port, motor_id)
SMT_goal_positions(current_position) ==
    { Min(4000, current_position + 300), Max(0, current_position - 300), current_position }

SMT_read ==
    /\ Idle
    /\ \E motor_id \in MOTOR_IDS : \E r \in Responses(motor_id) :
        Exchange("simple_move_test.test_move_motor",
                 Req("read", motor_id, "present_position", 56, 0, 2),
                 AppendLoopChecksum(<<255, 255, motor_id, 4, 2, 56, 2>>),
                 r,
                 IF r # <<>> /\ StatusOK(r, motor_id, 8)
                   THEN Res(TRUE, r[6] + (r[7] * 256))
                   ELSE Res(FALSE, NoValue))

SMT_write ==
    /\ Idle
    /\ \E motor_id \in MOTOR_IDS, current_position \in ReadPositions \cup {2048} :
       \E position \in SMT_goal_positions(current_position) :
        Exchange("simple_move_test.test_move_motor",
                 Req("write", motor_id, "goal_position", 42, position, 2),
                 AppendLoopChecksum(<<255, 255, motor_id, 5, 3, 42,
                                      LowByte(position), HighByte(position)>>),
                 <<>>,
                 Res(FALSE, NoValue))

\* test_move_follower.move_follower_arm: the goal writes, as (motor, position),
\* for a stored reading p of that motor (gripper +-300, shoulder +-200, then
\* every motor back to its stored reading)
TMF_goal_writes(p) ==
    { <<6, Min(4000, Max(0, p + 300))>>, <<6, Min(4000, Max(0, p - 300))>>,
      <<1, Min(4000, Max(0, p + 200))>>, <<1, Min(4000, Max(0, p - 200))>> }
      \cup { <<motor_id, p>> : motor_id \in MOTOR_IDS }

TMF_read ==
    /\ Idle
    /\ \E motor_id \in MOTOR_IDS : \E r \in Responses(motor_id) :
        Exchange("test_move_follower.move_follower_arm",
                 Req("read", motor_id, "present_position", 56, 0, 2),
                 AppendLoopChecksum(<<255, 255, motor_id, 4, 2, 56, 2>>),
                 r,
                 IF r # <<>> /\ StatusOK(r, motor_id, 8)
                   THEN Res(TRUE, r[6] + (r[7] * 256))
                   ELSE Res(FALSE, NoValue))

TMF_torque ==
    /\ Idle
    /\ \E motor_id \in MOTOR_IDS : \E r \in Responses(motor_id) :
        Exchange("test_move_follower.move_follower_arm",
                 Req("write", motor_id, "torque_enable", 40, 1, 1),
                 AppendLoopChecksum(<<255, 255, motor_id, 4, 3, 40, 1>>),
                 r,
                 Res(r # <<>> /\ StatusOK(r, motor_id, 6), NoValue))

TMF_write ==
    /\ Idle
    /\ \E current_position \in ReadPositions \cup {2048} :
       \E w \in TMF_goal_writes(current_position) :
        Exchange("test_move_follower.move_follower_arm",
                 Req("write", w[1], "goal_position", 42, w[2], 2),
                 AppendLoopChecksum(<<255, 255, w[1], 5, 3, 42,
                                      LowByte(w[2]), HighByte(w[2])>>),
                 <<>>,
                 Res(FALSE, NoValue))

(***************************************************************************)
(* Ping probes of custom_configs                                           *)
(***************************************************************************)
\* leader_diagnostics.check_direct_serial_communication: ids range(1, 15)
\*   ping_packet = [FF, FF, id, 02, 01]; checksum = (~(sum(ping_packet[2:]) % 256)) & 0xFF
LD_ping_packet(motor_id) ==
    LET ping_packet == <<255, 255, motor_id, 2, 1>>
        checksum == Not8(SumSeq(SubSeq(ping_packet, 3, Len(ping_packet))) % 256)
    IN  Append(ping_packet, checksum)

LD_check_direct_serial_communication ==
    /\ Idle
    /\ \E motor_id \in 1..14 : \E r \in Responses(motor_id) :
        Exchange("leader_diagnostics.check_direct_serial_communication",
                 PingReq(motor_id),
                 LD_ping_packet(motor_id),
                 r,
                 Res(r # <<>> /\ StatusOK(r, motor_id, 6), NoValue))

\* leader_protocol_test.test_protocol: three packet formats per motor id
LPT_ping_packet(protocol_idx, motor_id) ==
    IF protocol_idx = 0
      THEN ping_motor_packet(motor_id)
      ELSE IF protocol_idx = 1
        THEN LET ping_packet == <<255, 255, motor_id, 2, 1, 0>>
                 checksum == SumSeq(Slice2ToLast(ping_packet))
             IN  [ping_packet EXCEPT ![Len(ping_packet)] = Not8(checksum)]
        ELSE <<255, 255, 253, 0, motor_id, 3, 0, 1>> \o <<0>> \o <<0>>

\* "Simplified check if we got any response": if len(response) > 0
LPT_success(r, motor_id) == Len(r) > 0

LPT_test_protocol ==
    /\ Idle
    /\ \E protocol_idx \in 0..2, motor_id \in MOTOR_IDS : \E r \in Responses(motor_id) :
        Exchange("leader_protocol_test.test_protocol",
                 PingReq(motor_id),
                 LPT_ping_packet(protocol_idx, motor_id),
                 r,
                 Res(r # <<>> /\ LPT_success(r, motor_id), NoValue))

\* check_power_supply.send_basic_ping: ids range(1, 253); response = ser.read(10);
\* if response and len(response) >= 6: "Response received", return True
Read10(r) == SubSeq(r, 1, Min(10, Len(r)))

CPS_success(r, motor_id) == r # <<>> /\ Len(r) >= 6

CPS_send_basic_ping ==
    /\ Idle
    /\ \E motor_id \in 1..252 : \E r \in Responses(motor_id) :
        Exchange("check_power_supply.send_basic_ping",
                 PingReq(motor_id),
                 ping_motor_packet(motor_id),
                 Read10(r),
                 Res(CPS_success(Read10(r), motor_id), NoValue))

\* The remaining probes repeat ping_motor's packet and reply check verbatim,
\* each over its own id range.
ProbeIds ==
    [ leader_test |-> 1..6, follower_test |-> 1..6, swap_test |-> 1..20,
      test_final |-> 1..6, test_swapped_config |-> 1..6, verify_usb_c |-> 1..6,
      direct_motor_ping |-> 1..6, try_follower_motors_on_leader_port |-> 1..20,
      check_all_connections |-> 1..6, check_leader_arm |-> 1..6,
      simplified_motor_test |-> 1..6, leader_speed_test |-> 1..10,
      leader_baudrate_test |-> 1..10 ]

ConfigProbe_ping ==
    /\ Idle
    /\ \E s \in DOMAIN ProbeIds : \E motor_id \in ProbeIds[s] : \E r \in Responses(motor_id) :
        Exchange(s,
                 PingReq(motor_id),
                 ping_motor_packet(motor_id),
                 r,
                 Res(r # <<>> /\ StatusOK(r, motor_id, 6), NoValue))

(***************************************************************************)
(* custom_scripts/follower_move_test.py  (test_follower_move)              *)
(***************************************************************************)
\* if len(response) >= 8: pos_low = response[5]; pos_high = response[6]
LongEnough(r, motor_id) == Len(r) >= 8

FMT_ping ==
    /\ Idle
    /\ \E motor_id \in MOTOR_IDS : \E r \in Responses(motor_id) :
        Exchange("follower_move_test.test_follower_move",
                 PingReq(motor_id),
                 ping_motor_packet(motor_id),
                 r,
                 Res(r # <<>> /\ StatusOK(r, motor_id, 6), NoValue))

FMT_torque ==
    /\ Idle
    /\ \E motor_id \in MOTOR_IDS, value \in {0, 1} : \E r \in Responses(motor_id) :
        LET checksum == 255 - ((motor_id + 4 + 3 + 40 + value) % 256)
        IN  Exchange("follower_move_test.test_follower_move",
                     Req("write", motor_id, "torque_enable", 40, value, 1),
                     <<255, 255, motor_id, 4, 3, 40, value, checksum>>,
                     r,
                     Res(FALSE, NoValue))

FMT_read_position ==
    /\ Idle
    /\ \E motor_id \in MOTOR_IDS : \E r \in Responses(motor_id) :
        LET checksum == 255 - ((motor_id + 4 + 2 + 56 + 2) % 256)
        IN  Exchange("follower_move_test.test_follower_move",
                     Req("read", motor_id, "present_position", 56, 0, 2),
                     <<255, 255, motor_id, 4, 2, 56, 2, checksum>>,
                     r,
                     IF r # <<>> /\ LongEnough(r, motor_id)
                       THEN Res(TRUE, Word(r[6], r[7]))
                       ELSE Res(FALSE, NoValue))

FMT_move ==
    /\ Idle
    /\ \E motor_id \in MOTOR_IDS : \E r \in Responses(motor_id) :
        LET center_pos == 2048
            pos_l == LowByte(center_pos)
            pos_h == HighByte(center_pos)
            checksum == 255 - ((motor_id + 5 + 3 + 42 + pos_l + pos_h) % 256)
        IN  Exchange("follower_move_test.test_follower_move",
                     Req("write", motor_id, "goal_position", 42, center_pos, 2),
                     <<255, 255, motor_id, 5, 3, 42, pos_l, pos_h, checksum>>,
                     r,
                     Res(FALSE, NoValue))

(***************************************************************************)
(* custom_scripts/so101_direct_teleoperation.py, direct serial mode        *)
(***************************************************************************)
\* follower targets are (int(pos) + offset) % 4096, or CENTER_POSITION
DT_Targets == {0, 255, 256, CENTER_POSITION, 4095}

DT_disable_all_motors ==
    /\ Idle
    /\ \E motor_id \in MOTOR_IDS : \E r \in Responses(motor_id) :
        LET checksum == 255 - ((motor_id + 4 + 3 + 40 + 0) % 256)
        IN  Exchange("so101_direct_teleoperation.disable_all_motors",
                     Req("write", motor_id, "torque_enable", 40, 0, 1),
                     <<255, 255, motor_id, 4, 3, 40, 0, checksum>>,
                     r,
                     Res(FALSE, NoValue))

DT_set_follower_positions ==
    /\ Idle
    /\ \E motor_id \in MOTOR_IDS, position \in DT_Targets : \E r \in Responses(motor_id) :
        LET pos_l == LowByte(position)
            pos_h == HighByte(position)
            checksum == 255 - ((motor_id + 5 + 3 + 42 + pos_l + pos_h) % 256)
        IN  Exchange("so101_direct_teleoperation.set_follower_positions",
                     Req("write", motor_id, "goal_position", 42, position, 2),
                     <<255, 255, motor_id, 5, 3, 42, pos_l, pos_h, checksum>>,
                     r,
                     Res(FALSE, NoValue))

DT_enable_all_follower_motors ==
    /\ Idle
    /\ \E motor_id \in MOTOR_IDS : \E r \in Responses(motor_id) :
        LET checksum == 255 - ((motor_id + 4 + 3 + 40 + 1) % 256)
        IN  Exchange("so101_direct_teleoperation.enable_all_follower_motors",
                     Req("write", motor_id, "torque_enable", 40, 1, 1),
                     <<255, 255, motor_id, 4, 3, 40, 1, checksum>>,
                     r,
                     Res(r # <<>> /\ StatusOK(r, motor_id, 6), NoValue))

DT_ping_all_motors ==
    /\ Idle
    /\ \E motor_id \in MOTOR_IDS : \E r \in Responses(motor_id) :
        Exchange("so101_direct_teleoperation.ping_all_motors",
                 PingReq(motor_id),
                 ping_motor_packet(motor_id),
                 r,
                 Res(r # <<>> /\ StatusOK(r, motor_id, 6), NoValue))

\* test_follower_arm: read present position after the move to center;
\* if len(response) >= 8: position = (response[6] << 8) + response[5]
DT_test_follower_arm ==
    /\ Idle
    /\ \E motor_id \in MOTOR_IDS : \E r \in Responses(motor_id) :
        LET checksum == 255 - ((motor_id + 4 + 2 + 56 + 2) % 256)
        IN  Exchange("so101_direct_teleoperation.test_follower_arm",
                     Req("read", motor_id, "present_position", 56, 0, 2),
                     <<255, 255, motor_id, 4, 2, 56, 2, checksum>>,
                     r,
                     IF r # <<>> /\ Len(r) >= 8
                       THEN Res(TRUE, Word(r[6], r[7]))
                       ELSE Res(FALSE, NoValue))

(***************************************************************************)
(* Register accesses through the vendor SDK (read/write{1,2}ByteTxRx).     *)
(* The SDK builds and parses the packets; the call sites fix the register  *)
(* address.  Each table lists <<function, op, register meant, address,     *)
(* byte count>> of one script.                                             *)
(***************************************************************************)
FT_SdkCalls ==    \* so101_fixed_teleoperation.py
    { <<"so101_fixed_teleoperation.read_motor_positions", "read", "present_position", 56, 2>>,
      <<"so101_fixed_teleoperation.move_motors", "write", "goal_position", 60, 2>>,
      <<"so101_fixed_teleoperation.verify_movement", "read", "present_position", 56, 2>>,
      <<"so101_fixed_teleoperation.is_motor_torque_enabled", "read", "torque_enable", 50, 1>>,
      <<"so101_fixed_teleoperation.toggle_motor_torque", "write", "torque_enable", 50, 1>>,
      <<"so101_fixed_teleoperation.enable_all_motors", "write", "torque_enable", 50, 1>>,
      <<"so101_fixed_teleoperation.disable_all_motors", "write", "torque_enable", 50, 1>> }

RFM_SdkCalls ==   \* reset_follower_motors.py (ADDR_* constants)
    { <<"reset_follower_motors.reset_motor", "write", "torque_enable", 40, 1>>,
      <<"reset_follower_motors.test_motor_movement", "read", "present_position", 56, 2>>,
      <<"reset_follower_motors.test_motor_movement", "write", "goal_position", 42, 2>>,
      <<"reset_follower_motors.read_motor_status", "read", "torque_enable", 40, 1>> }

DT_SdkCalls ==    \* so101_direct_teleoperation.py, SDK mode
    { <<"so101_direct_teleoperation.disable_all_motors", "write", "torque_enable", 40, 1>>,
      <<"so101_direct_teleoperation.read_leader_positions", "read", "present_position", 56, 2>>,
      <<"so101_direct_teleoperation.set_follower_positions", "write", "goal_position", 42, 2>>,
      <<"so101_direct_teleoperation.enable_all_follower_motors", "write", "torque_enable", 40, 1>> }

ST_SdkCalls ==    \* so101_teleoperation.py
    { <<"so101_teleoperation.read_motor_positions", "read", "present_position", 56, 2>>,
      <<"so101_teleoperation.move_motors", "write", "goal_position", 60, 2>>,
      <<"so101_teleoperation.enable_all_motors", "write", "torque_enable", 50, 1>>,
      <<"so101_teleoperation.disable_all_motors", "write", "torque_enable", 50, 1>> }

\* values a call carries: a torque flag, or a position
SdkValues(c) == IF c[5] = 1 THEN {0, 1} ELSE {0, CENTER_POSITION, 4095}

\* one SDK call: no raw packet of the script's own; comm_result is
\* COMM_SUCCESS (ok) or not; a successful read returns a value
SdkTxRx(c) ==
    \E motor_id \in MOTOR_IDS, v \in SdkValues(c), ok \in BOOLEAN :
        Exchange(c[1],
                 Req(c[2], motor_id, c[3], c[4], IF c[2] = "write" THEN v ELSE 0, c[5]),
                 <<>>,
                 <<>>,
                 Res(ok, IF c[2] = "read" /\ ok THEN v ELSE NoValue))

FT_sdk == Idle /\ \E c \in FT_SdkCalls : SdkTxRx(c)
RFM_sdk == Idle /\ \E c \in RFM_SdkCalls : SdkTxRx(c)
DT_sdk == Idle /\ \E c \in DT_SdkCalls : SdkTxRx(c)
ST_sdk == Idle /\ \E c \in ST_SdkCalls : SdkTxRx(c)

(***************************************************************************)
(* custom_configs/teleoperate_follower.py: keyboard jog of the follower    *)
(* through the vendor SDK                                                  *)
(***************************************************************************)
STEP_SIZE == 50
REST_POSITIONS == <<3014, 890, 2954, 1084, 74, 2065>>

\* 'w'/'s' presses handled in one run
MaxJogs == 3

\* what the six initial read2ByteTxRx(.., 56) return (NoValue: comm_result is
\* not COMM_SUCCESS)
TF_InitialReads == { [m \in MOTOR_IDS |-> v] : v \in {NoValue, 0, 4095} }
\* the motors whose write fails during 'r'
TF_FailSets == { {}, {5}, MOTOR_IDS }

\* finally: torque off on all motors, closePort
TF_finally ==
    /\ tf_pc' = "done"
    /\ torque_writes' = { <<m, 0>> : m \in MOTOR_IDS }
    /\ goals' = {}
    /\ port_open' = FALSE
    /\ UNCHANGED <<current_positions, selected_motor, torque_enabled, jogs>>

\* main() up to the control loop: open the port, read the initial positions
\* (rest position as fallback), enable torque on all motors
TF_main ==
    /\ tf_pc = "start"
    /\ \E opened \in BOOLEAN, reads \in TF_InitialReads :
        IF ~opened
          THEN /\ tf_pc' = "done"
               /\ UNCHANGED <<port_open, current_positions, selected_motor,
                              torque_enabled, goals, torque_writes, jogs>>
          ELSE /\ tf_pc' = "loop"
               /\ port_open' = TRUE
               /\ current_positions' =
                    [m \in MOTOR_IDS |->
                        IF reads[m] # NoValue THEN reads[m] ELSE REST_POSITIONS[m]]
               /\ torque_enabled' = TRUE
               /\ torque_writes' = { <<m, 1>> : m \in MOTOR_IDS }
               /\ selected_motor' = 1
               /\ UNCHANGED <<goals, jogs>>
    /\ UNCHANGED notJog

\* key in '123456'
TF_key_select ==
    /\ tf_pc = "loop"
    /\ \E k \in MOTOR_IDS : selected_motor' = k
    /\ goals' = {}
    /\ torque_writes' = {}
    /\ UNCHANGED <<tf_pc, port_open, current_positions, torque_enabled, jogs>>
    /\ UNCHANGED notJog

\* the 'w' and 's' branches: write current +- STEP_SIZE to address 42, keep it
\* as the current position when the write succeeded
TF_jog(step) ==
    /\ tf_pc = "loop"
    /\ jogs < MaxJogs
    /\ \E comm_success \in BOOLEAN :
        LET target_position == current_positions[selected_motor] + step
        IN  /\ goals' = { <<selected_motor, target_position>> }
            /\ current_positions' =
                 IF comm_success
                   THEN [current_positions EXCEPT ![selected_motor] = target_position]
                   ELSE current_positions
    /\ jogs' = jogs + 1
    /\ torque_writes' = {}
    /\ UNCHANGED <<tf_pc, port_open, selected_motor, torque_enabled>>
    /\ UNCHANGED notJog

TF_key_w == TF_jog(STEP_SIZE)
TF_key_s == TF_jog(-STEP_SIZE)

\* 'r': every motor to its rest position
TF_key_r ==
    /\ tf_pc = "loop"
    /\ \E failed \in TF_FailSets :
        /\ goals' = { <<m, REST_POSITIONS[m]>> : m \in MOTOR_IDS }
        /\ current_positions' =
             [m \in MOTOR_IDS |->
                 IF m \in failed THEN current_positions[m] ELSE REST_POSITIONS[m]]
    /\ torque_writes' = {}
    /\ UNCHANGED <<tf_pc, port_open, selected_motor, torque_enabled, jogs>>
    /\ UNCHANGED notJog

\* 't': toggle torque on all motors
TF_key_t ==
    /\ tf_pc = "loop"
    /\ torque_enabled' = ~torque_enabled
    /\ torque_writes' = { <<m, IF torque_enabled' THEN 1 ELSE 0>> : m \in MOTOR_IDS }
    /\ goals' = {}
    /\ UNCHANGED <<tf_pc, port_open, current_positions, selected_motor, jogs>>
    /\ UNCHANGED notJog

\* 'q': break, then the finally block
TF_key_q ==
    /\ tf_pc = "loop"
    /\ TF_finally
    /\ UNCHANGED notJog

\* Ctrl-C in the loop: except KeyboardInterrupt, then the finally block
TF_KeyboardInterrupt ==
    /\ tf_pc = "loop"
    /\ TF_finally
    /\ UNCHANGED notJog

(***************************************************************************)
(* custom_scripts/so101_direct_teleoperation.py: the main control loop and *)
(* the daemon keyboard thread                                              *)
(***************************************************************************)
\* one access to a shared flag, and whether the accessing thread holds the lock
Access(thread, flag, op) ==
    [thread |-> thread, flag |-> flag, op |-> op, locked |-> (lock = thread)]

\* read_leader_positions(): every motor's branch tests DEBUG_MODE (lines 190-199)
ReadLeaderAccess(thread) == { Access(thread, "DEBUG_MODE", "read") }
\* set_follower_positions(): tests DEBUG_MODE (lines 225-259)
SetFollowerAccess(thread) == { Access(thread, "DEBUG_MODE", "read") }

\* disable_all_motors(): the command reaches the motors only through open
\* ports; errors are ignored
disable_all_motors ==
    follower_torque' = IF ports_open THEN "off" ELSE follower_torque

\* close_ports()
close_ports == ports_open' = FALSE

\* main() up to keyboard_thread.start(): open_ports, ping_all_motors,
\* enable_all_follower_motors, calibrate_offset, test_follower_arm
Main_start ==
    /\ main_pc = "start"
    /\ \E outcome \in {"open_failed", "no_motors", "ok"} :
        IF outcome = "ok"
          THEN /\ main_pc' = "reset"
               /\ ports_open' = TRUE
               /\ follower_torque' = "on"
               /\ access' = ReadLeaderAccess("main")
               /\ kb_pc' = "poll"
          ELSE /\ main_pc' = "done"
               /\ ports_open' = FALSE
               /\ access' = {}
               /\ UNCHANGED <<follower_torque, kb_pc>>
    /\ UNCHANGED <<lock, teleoperation_active, DEBUG_MODE,
                   current_teleoperation_active, position_changed, key>>
    /\ UNCHANGED notTele

\* reset_to_center(); smoothed_positions = read_leader_positions()
Main_reset_to_center ==
    /\ main_pc = "reset"
    /\ main_pc' = "sample"
    /\ access' = SetFollowerAccess("main") \cup ReadLeaderAccess("main")
    /\ UNCHANGED <<kb_pc, lock, teleoperation_active, DEBUG_MODE,
                   current_teleoperation_active, position_changed, key,
                   follower_torque, ports_open>>
    /\ UNCHANGED notTele

\* with lock:  (line 601) entering
Main_lock ==
    /\ main_pc = "sample"
    /\ lock = "none"
    /\ lock' = "main"
    /\ main_pc' = "locked"
    /\ access' = {}
    /\ UNCHANGED <<kb_pc, teleoperation_active, DEBUG_MODE,
                   current_teleoperation_active, position_changed, key,
                   follower_torque, ports_open>>
    /\ UNCHANGED notTele

\* current_teleoperation_active = teleoperation_active  (line 602), leaving the with
Main_sample ==
    /\ main_pc = "locked"
    /\ current_teleoperation_active' = teleoperation_active
    /\ access' = { Access("main", "teleoperation_active", "read") }
    /\ lock' = "none"
    /\ main_pc' = "read"
    /\ UNCHANGED <<kb_pc, teleoperation_active, DEBUG_MODE, position_changed, key,
                   follower_torque, ports_open>>
    /\ UNCHANGED notTele

\* leader_positions = read_leader_positions(); smoothing; position_changed
\* (a failed or refused read yields the fallback, never an exception)
Main_read_leader_positions ==
    /\ main_pc = "read"
    /\ \E changed \in BOOLEAN : position_changed' = changed
    /\ access' = ReadLeaderAccess("main")
    /\ main_pc' = "send"
    /\ UNCHANGED <<kb_pc, lock, teleoperation_active, DEBUG_MODE,
                   current_teleoperation_active, key, follower_torque, ports_open>>
    /\ UNCHANGED notTele

\* if current_teleoperation_active and position_changed: set_follower_positions(..)
\* (write errors on closed ports are caught inside set_follower_positions)
Main_send ==
    /\ main_pc = "send"
    /\ access' = IF current_teleoperation_active /\ position_changed
                   THEN SetFollowerAccess("main")
                   ELSE {}
    /\ main_pc' = "status"
    /\ UNCHANGED <<kb_pc, lock, teleoperation_active, DEBUG_MODE,
                   current_teleoperation_active, position_changed, key,
                   follower_torque, ports_open>>
    /\ UNCHANGED notTele

\* if not DEBUG_MODE and teleoperation_active: print_status(..)  (line 633);
\* time.sleep(UPDATE_FREQUENCY); next iteration of while True
Main_status ==
    /\ main_pc = "status"
    /\ access' = { Access("main", "DEBUG_MODE", "read") }
                   \cup (IF ~DEBUG_MODE
                           THEN { Access("main", "teleoperation_active", "read") }
                           ELSE {})
    /\ main_pc' = "sample"
    /\ UNCHANGED <<kb_pc, lock, teleoperation_active, DEBUG_MODE,
                   current_teleoperation_active, position_changed, key,
                   follower_torque, ports_open>>
    /\ UNCHANGED notTele

\* the steps of the main thread's loop
MainLoopPcs == {"sample", "locked", "read", "send", "status"}

\* Ctrl-C: SIGINT runs signal_handler in the main thread (disable_all_motors,
\* close_ports, sys.exit(0)); SystemExit leaves the with, passes the handlers
\* and runs the finally block
Main_SIGINT ==
    /\ main_pc \in MainLoopPcs \cup {"reset"}
    /\ disable_all_motors
    /\ close_ports
    /\ lock' = IF lock = "main" THEN "none" ELSE lock
    /\ main_pc' = "done"
    /\ access' = {}
    /\ UNCHANGED <<kb_pc, teleoperation_active, DEBUG_MODE,
                   current_teleoperation_active, position_changed, key>>
    /\ UNCHANGED notTele

\* the keyboard thread runs while the process does
KbPolling == kb_pc = "poll" /\ main_pc # "done"

\* ESC: signal_handler(None, None) called in the keyboard thread; its
\* sys.exit(0) raises SystemExit in that thread only, which ends the thread
KB_esc ==
    /\ KbPolling
    /\ disable_all_motors
    /\ close_ports
    /\ kb_pc' = "exited"
    /\ key' = "esc"
    /\ access' = {}
    /\ UNCHANGED <<main_pc, lock, teleoperation_active, DEBUG_MODE,
                   current_teleoperation_active, position_changed>>
    /\ UNCHANGED notTele

\* SPACE / 'd': with lock (entering)
KB_lock(k) ==
    /\ KbPolling
    /\ lock = "none"
    /\ lock' = "kb"
    /\ kb_pc' = k
    /\ key' = k
    /\ access' = {}
    /\ UNCHANGED <<main_pc, teleoperation_active, DEBUG_MODE,
                   current_teleoperation_active, position_changed,
                   follower_torque, ports_open>>
    /\ UNCHANGED notTele

KB_space_lock == KB_lock("space")
KB_d_lock == KB_lock("d")

\* teleoperation_active = not teleoperation_active; status = .. (lines 518-520)
KB_space ==
    /\ kb_pc = "space"
    /\ teleoperation_active' = ~teleoperation_active
    /\ access' = { Access("kb", "teleoperation_active", "read"),
                   Access("kb", "teleoperation_active", "write") }
    /\ lock' = "none"
    /\ kb_pc' = "poll"
    /\ UNCHANGED <<main_pc, DEBUG_MODE, current_teleoperation_active,
                   position_changed, key, follower_torque, ports_open>>
    /\ UNCHANGED notTele

\* DEBUG_MODE = not DEBUG_MODE; print(..)  (lines 530-531)
KB_d ==
    /\ kb_pc = "d"
    /\ DEBUG_MODE' = ~DEBUG_MODE
    /\ access' = { Access("kb", "DEBUG_MODE", "read"),
                   Access("kb", "DEBUG_MODE", "write") }
    /\ lock' = "none"
    /\ kb_pc' = "poll"
    /\ UNCHANGED <<main_pc, teleoperation_active, current_teleoperation_active,
                   position_changed, key, follower_torque, ports_open>>
    /\ UNCHANGED notTele

\* a key whose handler takes no lock: k with the flag accesses acc
KB_call(k, acc) ==
    /\ KbPolling
    /\ key' = k
    /\ access' = acc
    /\ UNCHANGED <<main_pc, kb_pc, lock, teleoperation_active, DEBUG_MODE,
                   current_teleoperation_active, position_changed,
                   follower_torque, ports_open>>
    /\ UNCHANGED notTele

\* 'r': reset_to_center() -> set_follower_positions
KB_r == KB_call("r", SetFollowerAccess("kb"))
\* 'c': calibrate_offset() -> read_leader_positions
KB_c == KB_call("c", ReadLeaderAccess("kb"))
\* 't': test_follower_arm()
KB_t == KB_call("t", {})
\* 'p': ping_all_motors()
KB_p == KB_call("p", {})

(***************************************************************************)
(* Position-reading routines of the teleoperation scripts.  Each reads the *)
(* Present_Position of the motors in id order with the SDK's read2ByteTxRx *)
(* and replaces a failed read by the centre position.  What the SDK call   *)
(* did for one motor is an outcome: it returned COMM_SUCCESS with a        *)
(* position, it returned a communication error with some position, or it   *)
(* raised an exception (the serial layer does when the adapter vanishes).  *)
(***************************************************************************)
ReadSamples == {1000, 3000}
ReadOutcomes ==
    [kind : {"ok"}, position : ReadSamples]
        \cup [kind : {"comm_error", "exception"}, position : {0}]

\* A run of a routine: the list built so far and whether an exception left it.
ReadRun(status, positions) == [status |-> status, positions |-> positions]

\* so101_fixed_teleoperation.read_motor_positions and
\* so101_direct_teleoperation.read_leader_positions: the loop body is inside
\* try/except, so every outcome appends exactly one entry.
RECURSIVE ReadGuarded(_, _)
ReadGuarded(outcomes, positions) ==
    IF outcomes = <<>> THEN ReadRun("returned", positions)
    ELSE LET o == Head(outcomes) IN
         ReadGuarded(Tail(outcomes),
                     Append(positions,
                            IF o.kind = "ok" THEN o.position ELSE CENTER_POSITION))

\* so101_teleoperation.read_motor_positions: no try/except around the SDK call,
\* an exception leaves the loop and the function, nothing is returned.
RECURSIVE ReadUnguarded(_, _)
ReadUnguarded(outcomes, positions) ==
    IF outcomes = <<>> THEN ReadRun("returned", positions)
    ELSE LET o == Head(outcomes) IN
         IF o.kind = "exception" THEN ReadRun("raised", <<>>)
         ELSE ReadUnguarded(Tail(outcomes),
                            Append(positions,
                                   IF o.kind = "ok" THEN o.position
                                   ELSE CENTER_POSITION))

ReadIdle == rd_script = "none"

ReadCall(s, outcomes, run) ==
    /\ rd_script' = s
    /\ rd_outcomes' = outcomes
    /\ rd_status' = run.status
    /\ rd_positions' = run.positions
    /\ UNCHANGED notRead

DT_read_leader_positions ==
    /\ ReadIdle
    /\ \E outcomes \in [MOTOR_IDS -> ReadOutcomes] :
          ReadCall("so101_direct_teleoperation.read_leader_positions",
                   outcomes, ReadGuarded(outcomes, <<>>))

FT_read_motor_positions ==
    /\ ReadIdle
    /\ \E outcomes \in [MOTOR_IDS -> ReadOutcomes] :
          ReadCall("so101_fixed_teleoperation.read_motor_positions",
                   outcomes, ReadGuarded(outcomes, <<>>))

ST_read_motor_positions ==
    /\ ReadIdle
    /\ \E outcomes \in [MOTOR_IDS -> ReadOutcomes] :
          ReadCall("so101_teleoperation.read_motor_positions",
                   outcomes, ReadUnguarded(outcomes, <<>>))

\* The caller takes the list (or the exception) and may call again.
ReadReturn ==
    /\ ~ReadIdle
    /\ rd_script' = "none"
    /\ rd_outcomes' = <<>>
    /\ rd_status' = "none"
    /\ rd_positions' = <<>>
    /\ UNCHANGED notRead

(***************************************************************************)
(* Python float arithmetic.  The teleoperation loops keep the smoothed     *)
(* positions as Python floats (IEEE 754 binary64, round to nearest, ties   *)
(* to even).  A non-negative float is [m, e] with value m * 2^e; the       *)
(* significand m is a sequence of 15-bit limbs, least significant first,   *)
(* because it does not fit the model checker's integers.  Every operation  *)
(* computes the exact result and rounds it to 53 bits, as the hardware     *)
(* does; the values met here are far from the subnormal and overflow       *)
(* ranges.                                                                 *)
(***************************************************************************)
LimbBase == 2^15

RECURSIVE LimbAdd(_, _, _)
LimbAdd(a, b, carry) ==
    IF a = <<>> /\ b = <<>> THEN (IF carry = 0 THEN <<>> ELSE <<carry>>)
    ELSE LET t == (IF a = <<>> THEN 0 ELSE Head(a))
                  + (IF b = <<>> THEN 0 ELSE Head(b)) + carry
         IN  <<t % LimbBase>> \o LimbAdd(IF a = <<>> THEN <<>> ELSE Tail(a),
                                         IF b = <<>> THEN <<>> ELSE Tail(b),
                                         t \div LimbBase)

\* a - b for a >= b
RECURSIVE LimbSub(_, _, _)
LimbSub(a, b, borrow) ==
    IF a = <<>> THEN <<>>
    ELSE LET t == Head(a) - (IF b = <<>> THEN 0 ELSE Head(b)) - borrow
         IN  <<t % LimbBase>> \o LimbSub(Tail(a),
                                         IF b = <<>> THEN <<>> ELSE Tail(b),
                                         IF t < 0 THEN 1 ELSE 0)

\* a * k + carry for a limb k
RECURSIVE LimbScale(_, _, _)
LimbScale(a, k, carry) ==
    IF a = <<>> THEN (IF carry = 0 THEN <<>> ELSE <<carry>>)
    ELSE LET t == Head(a) * k + carry
         IN  <<t % LimbBase>> \o LimbScale(Tail(a), k, t \div LimbBase)

RECURSIVE LimbMul(_, _)
LimbMul(a, b) ==
    IF a = <<>> THEN <<>>
    ELSE LimbAdd(LimbScale(b, Head(a), 0), <<0>> \o LimbMul(Tail(a), b), 0)

\* drop the zero limbs above the most significant one
RECURSIVE LimbStrip(_)
LimbStrip(a) ==
    IF a # <<>> /\ a[Len(a)] = 0 THEN LimbStrip(SubSeq(a, 1, Len(a) - 1)) ELSE a

\* a < b for stripped a, b
RECURSIVE LimbLess(_, _)
LimbLess(a, b) ==
    IF Len(a) # Len(b) THEN Len(a) < Len(b)
    ELSE IF a = <<>> THEN FALSE
    ELSE IF a[Len(a)] # b[Len(b)] THEN a[Len(a)] < b[Len(b)]
    ELSE LimbLess(LimbStrip(SubSeq(a, 1, Len(a) - 1)),
                  LimbStrip(SubSeq(b, 1, Len(b) - 1)))

\* bit i of a, the least significant bit being bit 1
LimbBit(a, i) ==
    LET k == (i - 1) \div 15 + 1
    IN  IF k > Len(a) THEN 0 ELSE (a[k] \div 2^((i - 1) % 15)) % 2

\* the number of bits of a stripped a
LimbBitLen(a) ==
    IF a = <<>> THEN 0
    ELSE 15 * (Len(a) - 1)
            + CHOOSE n \in 1..15 : a[Len(a)] < 2^n /\ a[Len(a)] >= 2^(n - 1)

LimbAt(a, k) == IF k >= 1 /\ k <= Len(a) THEN a[k] ELSE 0

\* a \div 2^d
LimbShiftRight(a, d) ==
    LET q == d \div 15
        r == d % 15
    IN  LimbStrip([i \in 1..(IF Len(a) > q THEN Len(a) - q ELSE 0) |->
                      LimbAt(a, i + q) \div 2^r
                          + (LimbAt(a, i + q + 1) % 2^r) * 2^(15 - r)])

\* a * 2^d
LimbShiftLeft(a, d) ==
    LET q == d \div 15
        r == d % 15
    IN  LimbStrip([i \in 1..q |-> 0]
                      \o [i \in 1..(Len(a) + 1) |->
                             (LimbAt(a, i) % 2^(15 - r)) * 2^r
                                 + LimbAt(a, i - 1) \div 2^(15 - r)])

\* a small a as an integer
RECURSIVE LimbNat(_)
LimbNat(a) == IF a = <<>> THEN 0 ELSE Head(a) + LimbBase * LimbNat(Tail(a))

\* the significand of a binary64 has 53 bits; a shorter one is written with
\* 53 bits too, so that equal floats are equal records
FloatRound(x) ==
    LET m == LimbStrip(x.m)
        d == LimbBitLen(m) - 53
    IN  IF m = <<>> THEN [m |-> <<>>, e |-> 0]
        ELSE IF d <= 0 THEN [m |-> LimbShiftLeft(m, -d), e |-> x.e + d]
        ELSE LET kept   == LimbShiftRight(m, d)
                 half   == LimbBit(m, d) = 1
                 sticky == \E i \in 1..(d - 1) : LimbBit(m, i) = 1
                 up     == half /\ (sticky \/ LimbBit(kept, 1) = 1)
                 r      == IF up THEN LimbAdd(kept, <<1>>, 0) ELSE kept
             IN  IF LimbBitLen(r) > 53
                     THEN [m |-> LimbShiftRight(r, 1), e |-> x.e + d + 1]
                     ELSE [m |-> r, e |-> x.e + d]

\* the significand of x when the unit is 2^e0, for e0 <= x.e
FloatAlign(x, e0) == LimbShiftLeft(x.m, x.e - e0)

FloatFromInt(n) == FloatRound([m |-> <<n % LimbBase, n \div LimbBase>>, e |-> 0])

FloatMul(x, y) == FloatRound([m |-> LimbMul(x.m, y.m), e |-> x.e + y.e])

FloatAdd(x, y) ==
    LET e0 == IF x.e < y.e THEN x.e ELSE y.e
    IN  FloatRound([m |-> LimbAdd(FloatAlign(x, e0), FloatAlign(y, e0), 0),
                    e |-> e0])

FloatLess(x, y) ==
    LET e0 == IF x.e < y.e THEN x.e ELSE y.e
    IN  LimbLess(FloatAlign(x, e0), FloatAlign(y, e0))

\* x - y for x >= y
FloatSub(x, y) ==
    LET e0 == IF x.e < y.e THEN x.e ELSE y.e
    IN  FloatRound([m |-> LimbSub(FloatAlign(x, e0), FloatAlign(y, e0), 0),
                    e |-> e0])

\* abs(x - y)
FloatAbsDiff(x, y) == IF FloatLess(x, y) THEN FloatSub(y, x) ELSE FloatSub(x, y)

\* int(x): the integer part
FloatInt(x) ==
    LimbNat(IF x.e >= 0 THEN LimbShiftLeft(x.m, x.e)
            ELSE LimbShiftRight(x.m, -x.e))

FloatIsWhole(x) == x.e >= 0 \/ \A i \in 1..(-x.e) : LimbBit(x.m, i) = 0

\* n <= x and x <= n for an integer n
FloatAtLeast(x, n) == FloatInt(x) >= n
FloatAtMost(x, n) == FloatInt(x) < n \/ (FloatInt(x) = n /\ FloatIsWhole(x))

\* A float literal from the hexadecimal digits of its significand, most
\* significant first: float.hex(0.2) is 0x1.999999999999ap-3 and
\* float.hex(0.3) is 0x1.3333333333333p-2, and 13 hexadecimal digits after
\* the point are 52 bits.
RECURSIVE HexLimbs(_, _)
HexLimbs(digits, acc) ==
    IF digits = <<>> THEN acc
    ELSE HexLimbs(Tail(digits), LimbScale(acc, 16, Head(digits)))
FloatLiteral_0_2 ==
    [m |-> HexLimbs(<<1, 9, 9, 9, 9, 9, 9, 9, 9, 9, 9, 9, 9, 10>>, <<>>), e |-> -55]
FloatLiteral_0_3 ==
    [m |-> HexLimbs(<<1, 3, 3, 3, 3, 3, 3, 3, 3, 3, 3, 3, 3, 3>>, <<>>), e |-> -54]

\* alpha * current + (1 - alpha) * smoothed, current an int, smoothed a float
Smooth(alpha, current, smoothed) ==
    FloatAdd(FloatMul(alpha, FloatFromInt(current)),
             FloatMul(FloatSub(FloatFromInt(1), alpha), smoothed))

(***************************************************************************)
(* Main loops of the teleoperation scripts: the data each iteration works  *)
(* on.  The loops treat the motors alike (list comprehensions over zip),   *)
(* LoopMotors are the ones followed here; a reading is what                *)
(* read_motor_positions / read_leader_positions returned for a motor.      *)
(***************************************************************************)
LoopMotors == {1, 2}
LeaderSamples == {3, CENTER_POSITION}
MaxIterations == 3

LeaderReadings == [LoopMotors -> LeaderSamples]

\* leader_positions = read_...(); smoothed_positions = leader_positions.copy()
MainInit(s, leader_positions) ==
    /\ loop_script' = s
    /\ smoothed_positions' = [i \in LoopMotors |-> FloatFromInt(leader_positions[i])]
    /\ previous_positions' = smoothed_positions'
    /\ leader_readings' = [i \in LoopMotors |-> {leader_positions[i]}]
    /\ UNCHANGED <<sampled_active, follower_positions, iterations>>
    /\ UNCHANGED notLoop

\* if teleoperation_active: read the leader, smooth, move_motors(int(pos));
\* nothing happens in an iteration that finds teleoperation off
SmoothAndMove(alpha, active) ==
    /\ iterations' = iterations + 1
    /\ sampled_active' = active
    /\ IF active
       THEN \E leader_positions \in LeaderReadings :
               /\ leader_readings' =
                      [i \in LoopMotors |-> leader_readings[i] \cup {leader_positions[i]}]
               /\ smoothed_positions' =
                      [i \in LoopMotors |->
                          Smooth(alpha, leader_positions[i], smoothed_positions[i])]
               /\ follower_positions' =
                      [i \in LoopMotors |-> FloatInt(smoothed_positions'[i])]
       ELSE /\ follower_positions' = <<>>
            /\ UNCHANGED <<leader_readings, smoothed_positions>>
    /\ UNCHANGED <<loop_script, previous_positions>>
    /\ UNCHANGED notLoop

ST_main_init ==
    /\ loop_script = "none"
    /\ \E leader_positions \in LeaderReadings :
          MainInit("so101_teleoperation.main", leader_positions)

\* SPACE toggles the flag inside the loop, before it is tested
ST_main_iteration ==
    /\ loop_script = "so101_teleoperation.main"
    /\ iterations < MaxIterations
    /\ \E space \in BOOLEAN :
          SmoothAndMove(FloatLiteral_0_3,
                        IF space THEN ~sampled_active ELSE sampled_active)

IT_main_init ==
    /\ loop_script = "none"
    /\ \E leader_positions \in LeaderReadings :
          MainInit("so101_improved_teleoperation.main", leader_positions)

\* the keyboard thread owns the flag, the loop samples it under the lock
IT_main_iteration ==
    /\ loop_script = "so101_improved_teleoperation.main"
    /\ iterations < MaxIterations
    /\ \E active \in BOOLEAN : SmoothAndMove(FloatLiteral_0_2, active)

DT_main_init ==
    /\ loop_script = "none"
    /\ \E leader_positions \in LeaderReadings :
          MainInit("so101_direct_teleoperation.main", leader_positions)

\* (int(pos) + offset) % 4096
FollowerTarget(pos, offset) == (FloatInt(pos) + offset) % 4096

\* abs(current - previous) > 5 for some motor
PositionChanged(smoothed, previous) ==
    \E i \in LoopMotors :
        FloatLess(FloatFromInt(5), FloatAbsDiff(smoothed[i], previous[i]))

\* if current_teleoperation_active and position_changed:
ShouldSend_IgnoringPause(active, changed) == changed
ShouldSend(active, changed) == active /\ changed

\* one iteration of the while loop: sample the flag, read the leader, smooth,
\* and send only when teleoperation is on and the position changed enough
DT_main_iteration ==
    /\ loop_script = "so101_direct_teleoperation.main"
    /\ iterations < MaxIterations
    /\ iterations' = iterations + 1
    /\ \E active \in BOOLEAN, leader_positions \in LeaderReadings :
          LET smoothed == [i \in LoopMotors |->
                              Smooth(FloatLiteral_0_2, leader_positions[i],
                                     smoothed_positions[i])]
              send == ShouldSend(active, PositionChanged(smoothed, previous_positions))
          IN  /\ sampled_active' = active
              /\ leader_readings' =
                     [i \in LoopMotors |-> leader_readings[i] \cup {leader_positions[i]}]
              /\ smoothed_positions' = smoothed
              /\ follower_positions' =
                     IF send
                     THEN [i \in LoopMotors |->
                              FollowerTarget(smoothed[i], position_offsets[i])]
                     ELSE <<>>
              /\ previous_positions' = IF send THEN smoothed ELSE previous_positions
    /\ UNCHANGED loop_script
    /\ UNCHANGED notLoop

(***************************************************************************)
(* Leaving an interactive control loop.  ex_log lists what the script does *)
(* with its ports from the moment the loop is left: the register writes    *)
(* (ok: a motor acknowledged it) and the closing of a port.                *)
(***************************************************************************)
ExitWrite(id, address, ok) ==
    [op |-> "write", port |-> "follower", id |-> id, address |-> address,
     value |-> 0, ok |-> ok]
ExitClose(port) ==
    [op |-> "close", port |-> port, id |-> 0, address |-> 0, value |-> 0, ok |-> TRUE]

\* for motor_id in 1..6: write 0 to address; acked are the motors that answer
DisableAll(address, acked) ==
    [i \in 1..Cardinality(MOTOR_IDS) |-> ExitWrite(i, address, i \in acked)]

ExitLeft(s, path, log) ==
    /\ ex_script' = s
    /\ ex_path' = path
    /\ ex_log' = log
    /\ UNCHANGED notExit

\* follower_arm_controller.run_interactive_control: 'q' ends the loop, Ctrl-C
\* raises KeyboardInterrupt, a key that is not UTF-8 makes decode() raise; the
\* finally block calls disable_torque_all() and disconnect(), which calls
\* disable_torque_all() again and closes the port
FAC_run_interactive_control ==
    /\ ex_script = "none"
    /\ \E path \in {"q", "KeyboardInterrupt", "exception"}, acked \in SUBSET MOTOR_IDS :
          ExitLeft("follower_arm_controller.run_interactive_control", path,
                   DisableAll(40, acked) \o DisableAll(40, acked)
                       \o <<ExitClose("follower")>>)

\* custom_configs/teleoperate_follower.main: 'q' breaks, Ctrl-C raises
\* KeyboardInterrupt; the finally block writes 0 to address 40 of motors 1..6
\* and closes the port
TF_main_exit ==
    /\ ex_script = "none"
    /\ \E path \in {"q", "KeyboardInterrupt"}, acked \in SUBSET MOTOR_IDS :
          ExitLeft("teleoperate_follower.main", path,
                   DisableAll(40, acked) \o <<ExitClose("follower")>>)

\* so101_teleoperation.main: ESC breaks and the finally block runs
\* disable_all_motors (address 50) and closes both ports.  Ctrl-C runs
\* signal_handler, which does the same and calls sys.exit; the finally block
\* then runs on closed ports: the SDK either raises at the first write or
\* reports six failures, after which closePort is called again.
ST_main_exit ==
    /\ ex_script = "none"
    /\ \E path \in {"esc", "SIGINT"}, acked \in SUBSET MOTOR_IDS, raised \in BOOLEAN :
          LET cleanup(answering) ==
                  DisableAll(50, answering)
                      \o <<ExitClose("leader"), ExitClose("follower")>>
          IN  ExitLeft("so101_teleoperation.main", path,
                       IF path = "esc" THEN cleanup(acked)
                       ELSE IF raised THEN cleanup(acked)
                       ELSE cleanup(acked) \o cleanup({}))

\* the script is run again
ExitReturn ==
    /\ ex_script # "none"
    /\ ex_script' = "none"
    /\ ex_path' = "none"
    /\ ex_log' = <<>>
    /\ UNCHANGED notExit

(***************************************************************************)
(* calibrate_offset of so101_direct_teleoperation and of                   *)
(* so101_fixed_teleoperation (key 'c').  Both read the arms with the       *)
(* guarded position-reading routine, so a failed read arrives as 2048.     *)
(***************************************************************************)
MAX_RETRIES == 3

CalibOutcomes ==
    [kind : {"ok"}, position : {0, 1000}] \cup [kind : {"comm_error"}, position : {0}]
CalibReads == [LoopMotors -> CalibOutcomes]

\* position_offsets = [CENTER_POSITION - l for l in leader_positions]
CalibratedOffset_Reversed(l) == l - CENTER_POSITION
CalibratedOffset(l) == CENTER_POSITION - l

\* so101_direct_teleoperation.calibrate_offset
DT_calibrate_offset ==
    /\ cal_script = "none"
    /\ \E leader \in CalibReads :
          LET leader_positions == ReadGuarded(leader, <<>>).positions
          IN  /\ cal_leader' = leader
              /\ position_offsets' =
                     [i \in LoopMotors |-> CalibratedOffset(leader_positions[i])]
    /\ cal_script' = "so101_direct_teleoperation.calibrate_offset"
    /\ cal_status' = "returned"
    /\ UNCHANGED <<calibration_done, cal_attempt, cal_follower>>
    /\ UNCHANGED notCalib

\* so101_fixed_teleoperation.calibrate_offset, one attempt of the retry loop:
\* the readings are taken when none of them is 0; position_offsets and
\* calibration_done are set from the first pair taken, and the function
\* returns False when MAX_RETRIES attempts gave none
FT_calibrate_attempt ==
    /\ \/ cal_script = "none"
       \/ cal_script = "so101_fixed_teleoperation.calibrate_offset" /\ cal_status = "retry"
    /\ cal_script' = "so101_fixed_teleoperation.calibrate_offset"
    /\ cal_attempt' = cal_attempt + 1
    /\ \E leader \in CalibReads, follower \in CalibReads :
          LET leader_attempt == ReadGuarded(leader, <<>>).positions
              follower_attempt == ReadGuarded(follower, <<>>).positions
              taken == /\ \A i \in LoopMotors : leader_attempt[i] # 0
                       /\ \A i \in LoopMotors : follower_attempt[i] # 0
          IN  /\ cal_leader' = leader
              /\ cal_follower' = follower
              /\ IF taken
                 THEN /\ position_offsets' =
                             [i \in LoopMotors |-> follower_attempt[i] - leader_attempt[i]]
                      /\ calibration_done' = TRUE
                      /\ cal_status' = "True"
                 ELSE /\ cal_status' = IF cal_attempt' = MAX_RETRIES THEN "False" ELSE "retry"
                      /\ UNCHANGED <<position_offsets, calibration_done>>
    /\ UNCHANGED notCalib

\* calibrate_offset has returned; the globals it set stay
CalibReturn ==
    /\ cal_status \in {"returned", "True", "False"}
    /\ cal_script' = "none"
    /\ cal_status' = "none"
    /\ cal_attempt' = 0
    /\ cal_leader' = <<>>
    /\ cal_follower' = <<>>
    /\ UNCHANGED <<position_offsets, calibration_done>>
    /\ UNCHANGED notCalib

(***************************************************************************)
(* direct_reset_follower_motors.py: reset_motor and the loop of            *)
(* perform_reset_sequence that lists the motors it reset.                  *)
(***************************************************************************)
\* the register writes of reset_motor, in order: <<address, value>>
ResetWrites ==
    << <<ADDR_TORQUE_ENABLE, 0>>, <<ADDR_MAX_TORQUE, 1000>>, <<ADDR_OPERATING_MODE, 0>>,
       <<ADDR_GOAL_SPEED, 500>>, <<ADDR_RETURN_DELAY, 0>>, <<ADDR_ALARM_SHUTDOWN, 3>>,
       <<ADDR_LED, 1>>, <<ADDR_LED, 0>>, <<ADDR_TORQUE_ENABLE, 1>> >>

\* reset_motor: success is assigned by every write and returned after the
\* last one
reset_motor(acked) == acked[Len(acked)]

\* for motor_id in responsive_motors: if reset_motor(ser, motor_id):
\* reset_motors.append(motor_id).  The responsive motors are any of MOTOR_IDS
\* in increasing order; acked[w] tells whether write_byte / write_word got a
\* status packet with the motor's id for write w.
DR_reset_motor ==
    /\ rm_writes = <<>>
    /\ \E motor_id \in MOTOR_IDS, acked \in [DOMAIN ResetWrites -> BOOLEAN] :
          /\ motor_id >= rm_next
          /\ rm_next' = motor_id + 1
          /\ rm_motor' = motor_id
          /\ rm_writes' = [w \in DOMAIN ResetWrites |->
                              [address |-> ResetWrites[w][1], value |-> ResetWrites[w][2],
                               acked |-> acked[w]]]
          /\ reset_motors' = IF reset_motor(acked) THEN Append(reset_motors, motor_id)
                             ELSE reset_motors
    /\ UNCHANGED notReset

\* the loop goes on to the next responsive motor
DR_next_motor ==
    /\ rm_writes # <<>>
    /\ rm_writes' = <<>>
    /\ UNCHANGED <<reset_motors, rm_next, rm_motor>>
    /\ UNCHANGED notReset

(***************************************************************************)
(* custom_scripts/teleoperate_follower.py: the keyboard controller on top  *)
(* of FeetechMotorsBus.  A write is recorded with the value torque_enabled *)
(* had when it was issued.                                                 *)
(***************************************************************************)
CTF_STEP_SIZE == 20

\* motors_config, in order
CTF_Motors ==
    <<"shoulder_pan", "shoulder_lift", "elbow_flex", "wrist_flex", "wrist_roll", "gripper">>
\* MOTOR_KEYS
CTF_MOTOR_KEYS ==
    [shoulder_pan |-> [inc |-> "q", dec |-> "a"], shoulder_lift |-> [inc |-> "w", dec |-> "s"],
     elbow_flex |-> [inc |-> "e", dec |-> "d"], wrist_flex |-> [inc |-> "r", dec |-> "f"],
     wrist_roll |-> [inc |-> "t", dec |-> "g"], gripper |-> [inc |-> "y", dec |-> "h"]]
\* the keys pressed in the steps followed here, and the positions read
CTF_Keys == {"esc", "space", "home", "q", "a", "s"}
CTF_Positions == {100, 4090}

CTF_Write(register, motor_name, value, torque) ==
    [register |-> register, motor |-> motor_name, value |-> value, torque_enabled |-> torque]

\* if torque_enabled: (the guard of the home and of the jog branches)
CTF_MayMove_Always(torque) == TRUE
CTF_MayMove(torque) == torque

\* torque_enabled = False; connect; read the initial positions (0 for a motor
\* whose read raised)
CTF_main_start ==
    /\ ctf_pc = "start"
    /\ \E positions \in [{CTF_Motors[1], CTF_Motors[2]} -> CTF_Positions \cup {0}] :
          ctf_current_positions' =
              [n \in {CTF_Motors[i] : i \in DOMAIN CTF_Motors} |->
                  IF n \in DOMAIN positions THEN positions[n] ELSE 0]
    /\ ctf_pc' = "loop"
    /\ ctf_torque_enabled' = FALSE
    /\ ctf_writes' = <<>>
    /\ UNCHANGED notCtf

\* for motor_name in motors_config: motors_bus.write(register, value, motor_name)
CTF_WriteAll(register, value, torque) ==
    [i \in DOMAIN CTF_Motors |->
        CTF_Write(register, CTF_Motors[i],
                  IF register = "Goal_Position" THEN value[CTF_Motors[i]] ELSE value,
                  torque)]

\* the jog branch of one motor: inc wins over dec; the read and the write are
\* inside try/except
CTF_Jog(motor_name, pressed, position, torque, raises) ==
    LET step == IF CTF_MOTOR_KEYS[motor_name].inc \in pressed THEN CTF_STEP_SIZE
                ELSE IF CTF_MOTOR_KEYS[motor_name].dec \in pressed THEN 0 - CTF_STEP_SIZE
                ELSE 0
    IN  IF step # 0 /\ CTF_MayMove(torque) /\ ~raises
        THEN <<CTF_Write("Goal_Position", motor_name, position + step, torque)>>
        ELSE <<>>

RECURSIVE CTF_JogAll(_, _, _, _, _)
CTF_JogAll(motors, pressed, position, torque, raises) ==
    IF motors = <<>> THEN <<>>
    ELSE CTF_Jog(Head(motors), pressed, position, torque, raises)
             \o CTF_JogAll(Tail(motors), pressed, position, torque, raises)

\* the finally block: Torque_Enable 0 to every motor, disconnect (a bus that
\* raises ends it at the first write)
CTF_finally(torque, raises) ==
    IF raises THEN <<>> ELSE CTF_WriteAll("Torque_Enable", 0, torque)

\* one pass of `while running` with the keys in pressed held down, the bus
\* returning position to every read; when raises, every bus call of the pass
\* raises.  ESC (or Ctrl-C, which clears running) ends the loop; an exception
\* outside the jog branches ends it too.
CTF_main_iteration ==
    /\ ctf_pc = "loop"
    /\ \E pressed \in SUBSET CTF_Keys, position \in CTF_Positions, raises \in BOOLEAN :
          LET torque  == IF "space" \in pressed THEN ~ctf_torque_enabled
                         ELSE ctf_torque_enabled
              toggle  == IF "space" \in pressed /\ ~raises
                         THEN CTF_WriteAll("Torque_Enable", IF torque THEN 1 ELSE 0, torque)
                         ELSE <<>>
              homing  == "home" \in pressed /\ CTF_MayMove(torque)
              home    == IF homing /\ ~raises
                         THEN CTF_WriteAll("Goal_Position", ctf_current_positions, torque)
                         ELSE <<>>
              raised  == raises /\ ("space" \in pressed \/ homing)
              jog     == CTF_JogAll(CTF_Motors, pressed, position, torque, raises)
          IN  IF "esc" \in pressed
              THEN /\ ctf_pc' = "done"
                   /\ ctf_writes' = CTF_finally(ctf_torque_enabled, raises)
                   /\ UNCHANGED ctf_torque_enabled
              ELSE /\ ctf_torque_enabled' = torque
                   /\ ctf_pc' = IF raised THEN "done" ELSE "loop"
                   /\ ctf_writes' = IF raised THEN CTF_finally(torque, raises)
                                    ELSE toggle \o home \o jog
    /\ UNCHANGED ctf_current_positions
    /\ UNCHANGED notCtf

(***************************************************************************)
(* power_cycle_motors.py: ping the motors, then switch the torque of the   *)
(* responsive ones off and on.  pcm_sent lists the set_torque packets that *)
(* went out; the answer set_torque returns is only printed.                *)
(***************************************************************************)
PCM_cycles == 5

\* the two inner loops of a cycle, in order: set_torque(.., False), then
\* set_torque(.., True)
PCM_CycleOrder_OnFirst == <<TRUE, FALSE>>
PCM_CycleOrder == <<FALSE, TRUE>>

PCM_Command(cycle, motor_id, enable) ==
    [cycle |-> cycle, motor_id |-> motor_id, enable |-> enable]

\* the finally block: close_port(ser)
PCM_Leave(path) ==
    /\ pcm_pc' = "done"
    /\ pcm_path' = path
    /\ pcm_port' = "closed"

\* ser = open_port(); if not ser: return
PCM_open_port ==
    /\ pcm_pc = "start"
    /\ \E opened \in BOOLEAN :
          IF opened
          THEN /\ pcm_pc' = "ping"
               /\ pcm_port' = "open"
               /\ UNCHANGED pcm_path
          ELSE /\ pcm_pc' = "done"
               /\ pcm_path' = "open_failed"
               /\ UNCHANGED pcm_port
    /\ UNCHANGED <<responsive_motors, pcm_cycle, pcm_phase, pcm_index, pcm_sent>>
    /\ UNCHANGED notPcm

\* the first loop over MOTOR_IDS: the motors whose ping is answered are
\* collected in order; without any the function returns; a serial call that
\* raises leaves through the finally block
PCM_ping_all ==
    /\ pcm_pc = "ping"
    /\ \E answering \in SUBSET MOTOR_IDS, raises \in BOOLEAN :
          IF raises
          THEN /\ PCM_Leave("raised")
               /\ UNCHANGED <<responsive_motors, pcm_cycle, pcm_phase, pcm_index>>
          ELSE /\ responsive_motors' =
                      SelectSeq([i \in 1..Cardinality(MOTOR_IDS) |-> i],
                                LAMBDA m : m \in answering)
               /\ IF answering = {}
                  THEN /\ PCM_Leave("no_motors")
                       /\ UNCHANGED <<pcm_cycle, pcm_phase, pcm_index>>
                  ELSE /\ pcm_pc' = "cycle"
                       /\ pcm_cycle' = 1
                       /\ pcm_phase' = 1
                       /\ pcm_index' = 1
                       /\ UNCHANGED <<pcm_port, pcm_path>>
    /\ UNCHANGED pcm_sent
    /\ UNCHANGED notPcm

\* the next set_torque call of the cycles: the packet goes out and the loops
\* advance; or the write raises, or Ctrl-C arrives in a sleep, and the
\* function leaves through the finally block
PCM_set_torque ==
    /\ pcm_pc = "cycle"
    /\ \E raises \in BOOLEAN :
          IF raises
          THEN /\ PCM_Leave("raised")
               /\ UNCHANGED <<pcm_cycle, pcm_phase, pcm_index, pcm_sent>>
          ELSE /\ pcm_sent' =
                      Append(pcm_sent,
                             PCM_Command(pcm_cycle, responsive_motors[pcm_index],
                                         PCM_CycleOrder[pcm_phase]))
               /\ IF pcm_index < Len(responsive_motors)
                  THEN /\ pcm_index' = pcm_index + 1
                       /\ UNCHANGED <<pcm_pc, pcm_cycle, pcm_phase>>
                  ELSE IF pcm_phase < Len(PCM_CycleOrder)
                  THEN /\ pcm_phase' = pcm_phase + 1
                       /\ pcm_index' = 1
                       /\ UNCHANGED <<pcm_pc, pcm_cycle>>
                  ELSE IF pcm_cycle < PCM_cycles
                  THEN /\ pcm_cycle' = pcm_cycle + 1
                       /\ pcm_phase' = 1
                       /\ pcm_index' = 1
                       /\ UNCHANGED pcm_pc
                  ELSE /\ pcm_pc' = "verify"
                       /\ UNCHANGED <<pcm_cycle, pcm_phase, pcm_index>>
               /\ UNCHANGED <<pcm_port, pcm_path>>
    /\ UNCHANGED responsive_motors
    /\ UNCHANGED notPcm

\* the second loop over MOTOR_IDS pings again and prints; then the finally
\* block closes the port
PCM_verify ==
    /\ pcm_pc = "verify"
    /\ \E raises \in BOOLEAN : PCM_Leave(IF raises THEN "raised" ELSE "complete")
    /\ UNCHANGED <<responsive_motors, pcm_cycle, pcm_phase, pcm_index, pcm_sent>>
    /\ UNCHANGED notPcm

(***************************************************************************)
(* The baud-rate sweeps: leader_baudrate_test.test_baudrates,              *)
(* leader_speed_test.test_speeds and                                       *)
(* leader_diagnostics.check_direct_serial_communication.  A handle is the  *)
(* serial.Serial object of one baud rate, numbered by its place in the     *)
(* list.                                                                   *)
(***************************************************************************)
TB_baudrates == <<1000000, 500000, 250000, 115200, 57600, 38400, 19200, 9600>>
TS_baudrates == <<9600, 19200, 38400, 57600, 115200, 128000, 230400, 250000, 500000, 1000000>>
LD_baudrates == <<1000000, 500000, 250000, 128000, 115200, 57600, 38400, 19200, 9600>>

\* for baudrate in baudrates: try: serial.Serial(port_name, baudrate, ...);
\* when the constructor raises, the except clause prints and the loop goes on
SweepOpen(baudrates) ==
    /\ sw_pc = "open"
    /\ sw_index < Len(baudrates)
    /\ sw_index' = sw_index + 1
    /\ sw_attempted' = Append(sw_attempted, baudrates[sw_index + 1])
    /\ \E opened \in BOOLEAN :
          IF opened
          THEN /\ sw_open' = sw_open \cup {sw_index + 1}
               /\ sw_pc' = "pings"
          ELSE UNCHANGED <<sw_open, sw_pc>>
    /\ UNCHANGED sw_ser

\* the rest of the try block: ser is bound to the new handle (the one it
\* held before has no reference left: the interpreter may finalize it, which
\* closes it), the motors are pinged, and the port is closed when the end of
\* the block is reached.  closes_on_error: the block is a with statement.
SweepPings(closes_on_error) ==
    /\ sw_pc = "pings"
    /\ sw_pc' = "open"
    /\ sw_ser' = sw_index
    /\ \E raises \in BOOLEAN, finalized \in BOOLEAN :
          sw_open' =
              (sw_open \ (IF raises /\ ~closes_on_error THEN {} ELSE {sw_index}))
                  \ (IF finalized THEN {sw_ser} ELSE {})
    /\ UNCHANGED <<sw_index, sw_attempted>>

\* leader_baudrate_test.py: ser.close() is the last statement of the try block
test_baudrates ==
    /\ sw_script \in {"none", "test_baudrates"}
    /\ sw_script' = "test_baudrates"
    /\ SweepOpen(TB_baudrates) \/ SweepPings(FALSE)
    /\ UNCHANGED notSweep

\* leader_speed_test.py: the same shape, with a loop over delays inside
test_speeds ==
    /\ sw_script \in {"none", "test_speeds"}
    /\ sw_script' = "test_speeds"
    /\ SweepOpen(TS_baudrates) \/ SweepPings(FALSE)
    /\ UNCHANGED notSweep

\* leader_diagnostics.py: with serial.Serial(...) as ser
check_direct_serial_communication ==
    /\ sw_script \in {"none", "check_direct_serial_communication"}
    /\ sw_script' = "check_direct_serial_communication"
    /\ SweepOpen(LD_baudrates) \/ SweepPings(TRUE)
    /\ UNCHANGED notSweep

(***************************************************************************)
(* so101_direct_teleoperation.py in direct mode: what the main loop and    *)
(* the keyboard thread do on follower_serial.  A routine is the sequence   *)
(* of its port calls: "write" is follower_serial.write(packet), "drain" is *)
(* the read of in_waiting that follows the sleep.  No lock is taken around *)
(* them: lock guards the two flags only.                                   *)
(***************************************************************************)
PortCall(kind, motor_id) == [kind |-> kind, motor_id |-> motor_id]

RECURSIVE PortLoop(_, _)
\* for motor_id in MOTOR_IDS: the calls in kinds, for motors first..6
PortLoop(kinds, first) ==
    IF first > Cardinality(MOTOR_IDS) THEN <<>>
    ELSE [k \in DOMAIN kinds |-> PortCall(kinds[k], first)] \o PortLoop(kinds, first + 1)

\* the port calls of each routine: set_follower_positions, ping_all_motors,
\* enable_all_follower_motors and disable_all_motors write and drain once per
\* motor; test_follower_arm enables all motors, then per motor writes the
\* goal, writes the read command and drains once
PortProgram(op) ==
    IF op = "test_follower_arm"
    THEN PortLoop(<<"write", "drain">>, 1) \o PortLoop(<<"write", "write", "drain">>, 1)
    ELSE PortLoop(<<"write", "drain">>, 1)

\* the keys of monitor_keyboard_input whose handler uses the follower port
KeyRoutine ==
    [r |-> "set_follower_positions", t |-> "test_follower_arm",
     p |-> "ping_all_motors", esc |-> "disable_all_motors"]

\* the thread enters a routine
PortBegin(thread, op) ==
    /\ fp_op[thread] = "none"
    /\ fp_op' = [fp_op EXCEPT ![thread] = op]
    /\ fp_step' = [fp_step EXCEPT ![thread] = 0]
    /\ UNCHANGED <<fp_in_exchange, fp_buffer, fp_read, fp_open>>

\* the thread makes the next port call of its routine.  On a closed port
\* the call raises and the except clause of the routine swallows it.  A
\* written packet is answered or not; a drain takes whatever is waiting.
\* After its last call the routine returns; signal_handler goes on to
\* close_ports() and sys.exit(0), which ends the calling thread.
PortStep(thread) ==
    LET op   == fp_op[thread]
        call == PortProgram(op)[fp_step[thread] + 1]
        last == fp_step[thread] + 1 = Len(PortProgram(op))
    IN  /\ op \notin {"none", "exited"}
        /\ fp_step' = [fp_step EXCEPT ![thread] = IF last THEN 0 ELSE @ + 1]
        /\ fp_op' = [fp_op EXCEPT ![thread] =
                        IF ~last THEN @
                        ELSE IF op = "disable_all_motors" THEN "exited" ELSE "none"]
        /\ fp_open' = (fp_open /\ ~(last /\ op = "disable_all_motors"))
        /\ IF ~fp_open
           THEN /\ fp_in_exchange' = [fp_in_exchange EXCEPT ![thread] = FALSE]
                /\ UNCHANGED <<fp_buffer, fp_read>>
           ELSE IF call.kind = "write"
           THEN /\ fp_in_exchange' = [fp_in_exchange EXCEPT ![thread] = TRUE]
                /\ \E answered \in BOOLEAN :
                      fp_buffer' = IF answered THEN Append(fp_buffer, thread) ELSE fp_buffer
                /\ UNCHANGED fp_read
           ELSE /\ fp_in_exchange' = [fp_in_exchange EXCEPT ![thread] = FALSE]
                /\ fp_buffer' = <<>>
                /\ fp_read' = IF fp_buffer = <<>> THEN fp_read
                              ELSE [thread |-> thread,
                                    got |-> {fp_buffer[k] : k \in DOMAIN fp_buffer}]

\* the main loop reaches set_follower_positions(follower_positions)
DT_main_set_follower_positions ==
    /\ fp_op["main"] = "none"
    /\ PortBegin("main", "set_follower_positions")
    /\ UNCHANGED notPort

DT_main_port_call ==
    /\ fp_op["main"] # "none"
    /\ PortStep("main")
    /\ UNCHANGED notPort

\* monitor_keyboard_input sees ESC, R, T or P pressed and calls the handler
DT_monitor_keyboard_input ==
    /\ fp_op["kb"] = "none"
    /\ \E k \in DOMAIN KeyRoutine : PortBegin("kb", KeyRoutine[k])
    /\ UNCHANGED notPort

DT_keyboard_port_call ==
    /\ fp_op["kb"] # "none"
    /\ PortStep("kb")
    /\ UNCHANGED notPort

(***************************************************************************)
(* Specifications                                                          *)
(***************************************************************************)
vars == <<busVars, jogVars, teleVars, readVars, loopVars, exitVars, calibVars, resetVars, ctfVars, pcmVars, sweepVars, portVars>>

Init ==
    /\ script = "none"
    /\ req = NoReq
    /\ packet = <<>>
    /\ response = <<>>
    /\ result = Res(FALSE, NoValue)
    /\ tf_pc = "start"
    /\ port_open = FALSE
    /\ current_positions = <<>>
    /\ selected_motor = 1
    /\ torque_enabled = TRUE
    /\ goals = {}
    /\ torque_writes = {}
    /\ jogs = 0
    /\ main_pc = "start"
    /\ kb_pc = "none"
    /\ lock = "none"
    /\ teleoperation_active = TRUE
    /\ DEBUG_MODE = FALSE
    /\ current_teleoperation_active = TRUE
    /\ position_changed = FALSE
    /\ access = {}
    /\ key = "none"
    /\ follower_torque = "unknown"
    /\ ports_open = FALSE
    /\ rd_script = "none"
    /\ rd_outcomes = <<>>
    /\ rd_status = "none"
    /\ rd_positions = <<>>
    /\ loop_script = "none"
    /\ smoothed_positions = <<>>
    /\ previous_positions = <<>>
    /\ leader_readings = <<>>
    /\ sampled_active = TRUE
    /\ follower_positions = <<>>
    /\ iterations = 0
    /\ ex_script = "none"
    /\ ex_path = "none"
    /\ ex_log = <<>>
    /\ position_offsets = [i \in LoopMotors |-> 0]
    /\ calibration_done = FALSE
    /\ cal_script = "none"
    /\ cal_attempt = 0
    /\ cal_leader = <<>>
    /\ cal_follower = <<>>
    /\ cal_status = "none"
    /\ reset_motors = <<>>
    /\ rm_next = 1
    /\ rm_motor = 0
    /\ rm_writes = <<>>
    /\ ctf_pc = "start"
    /\ ctf_torque_enabled = FALSE
    /\ ctf_current_positions = <<>>
    /\ ctf_writes = <<>>
    /\ pcm_pc = "start"
    /\ pcm_port = "none"
    /\ pcm_path = ""
    /\ responsive_motors = <<>>
    /\ pcm_cycle = 0
    /\ pcm_phase = 0
    /\ pcm_index = 0
    /\ pcm_sent = <<>>
    /\ sw_script = "none"
    /\ sw_pc = "open"
    /\ sw_index = 0
    /\ sw_attempted = <<>>
    /\ sw_ser = 0
    /\ sw_open = {}
    /\ fp_op = [t \in {"main", "kb"} |-> "none"]
    /\ fp_step = [t \in {"main", "kb"} |-> 0]
    /\ fp_in_exchange = [t \in {"main", "kb"} |-> FALSE]
    /\ fp_buffer = <<>>
    /\ fp_read = [thread |-> "none", got |-> {}]
    /\ fp_open = TRUE

Next ==
    \/ DR_write_byte
    \/ DR_write_word
    \/ DR_read_word
    \/ DR_ping_motor
    \/ PC_ping_motor
    \/ PC_set_torque
    \/ FAC_ping_motors
    \/ FAC_read_positions
    \/ FAC_set_position
    \/ FAC_set_torque
    \/ FMV_move_gripper_read
    \/ FMV_move_gripper_write
    \/ FMV_move_gripper_torque
    \/ SMT_read
    \/ SMT_write
    \/ TMF_read
    \/ TMF_torque
    \/ TMF_write
    \/ LD_check_direct_serial_communication
    \/ LPT_test_protocol
    \/ CPS_send_basic_ping
    \/ ConfigProbe_ping
    \/ FMT_ping
    \/ FMT_torque
    \/ FMT_read_position
    \/ FMT_move
    \/ DT_disable_all_motors
    \/ DT_set_follower_positions
    \/ DT_enable_all_follower_motors
    \/ DT_ping_all_motors
    \/ DT_test_follower_arm
    \/ FT_sdk
    \/ RFM_sdk
    \/ DT_sdk
    \/ ST_sdk
    \/ Return

Spec == Init /\ [][Next]_vars

NextJog ==
    \/ TF_main
    \/ TF_key_select
    \/ TF_key_w
    \/ TF_key_s
    \/ TF_key_r
    \/ TF_key_t
    \/ TF_key_q
    \/ TF_KeyboardInterrupt

SpecJog == Init /\ [][NextJog]_vars

\* the main thread's own steps (Ctrl-C is the environment's)
MainStep ==
    \/ Main_start
    \/ Main_reset_to_center
    \/ Main_lock
    \/ Main_sample
    \/ Main_read_leader_positions
    \/ Main_send
    \/ Main_status

KbStep ==
    \/ KB_esc
    \/ KB_space_lock
    \/ KB_space
    \/ KB_d_lock
    \/ KB_d
    \/ KB_r
    \/ KB_c
    \/ KB_t
    \/ KB_p

NextTeleop == MainStep \/ KbStep \/ Main_SIGINT

SpecTeleop == Init /\ [][NextTeleop]_vars

\* both threads are scheduled: a thread that can take a step eventually does
\* (a thread inside `with lock` leaves it)
FairSpecTeleop ==
    /\ SpecTeleop
    /\ WF_vars(MainStep)
    /\ WF_vars(KB_space)
    /\ WF_vars(KB_d)

NextRead ==
    \/ DT_read_leader_positions
    \/ FT_read_motor_positions
    \/ ST_read_motor_positions
    \/ ReadReturn

SpecRead == Init /\ [][NextRead]_vars

NextLoop ==
    \/ ST_main_init
    \/ ST_main_iteration
    \/ IT_main_init
    \/ IT_main_iteration
    \/ DT_main_init
    \/ DT_main_iteration

SpecLoop == Init /\ [][NextLoop]_vars

NextExit ==
    \/ FAC_run_interactive_control
    \/ TF_main_exit
    \/ ST_main_exit
    \/ ExitReturn

SpecExit == Init /\ [][NextExit]_vars

NextCalib ==
    \/ DT_calibrate_offset
    \/ FT_calibrate_attempt
    \/ CalibReturn

SpecCalib == Init /\ [][NextCalib]_vars

NextReset ==
    \/ DR_reset_motor
    \/ DR_next_motor

SpecReset == Init /\ [][NextReset]_vars

NextCtf ==
    \/ CTF_main_start
    \/ CTF_main_iteration

SpecCtf == Init /\ [][NextCtf]_vars

NextCycle ==
    \/ PCM_open_port
    \/ PCM_ping_all
    \/ PCM_set_torque
    \/ PCM_verify

SpecCycle == Init /\ [][NextCycle]_vars

NextSweep ==
    \/ test_baudrates
    \/ test_speeds
    \/ check_direct_serial_communication

SpecSweep == Init /\ [][NextSweep]_vars

NextPort ==
    \/ DT_main_set_follower_positions
    \/ DT_main_port_call
    \/ DT_monitor_keyboard_input
    \/ DT_keyboard_port_call

SpecPort == Init /\ [][NextPort]_vars

(***************************************************************************)
(* Properties of the bus exchanges                                         *)
(***************************************************************************)
\* the fields of a packet [0xFF, 0xFF, id, length, instruction, params..., checksum]
Params(p) == SubSeq(p, 6, Len(p) - 1)
\* the header of the ROBOTIS-format probe of leader_protocol_test
RobotisHeader(p) == Len(p) >= 4 /\ SubSeq(p, 1, 4) = <<255, 255, 253, 0>>
\* a raw packet of the script's own is on the wire
RawPacket == req.op \in {"ping", "read", "write"} /\ packet # <<>>
InstructionOf(op) == IF op = "ping" THEN 1 ELSE IF op = "read" THEN 2 ELSE 3
ValidReply(resp, id, n) ==
    Len(resp) >= n /\ resp[1] = 255 /\ resp[2] = 255 /\ resp[3] = id

\* C1: every command packet written satisfies
\* (id + length + instruction + sum of ALL parameter bytes + checksum) mod 256 = 0xFF,
\* the checksum being the packet's last byte.
C1_ChecksumProperty ==
    RawPacket => SumSeq(SubSeq(packet, 3, Len(packet))) % 256 = 255

\* C1, the failing input: set_position(1, 2048) writes FF FF 01 05 03 2A 00 08 CC,
\* whose bytes after the header sum to 0x107: the high byte 08 is not in the checksum
C1_FailingInput ==
    /\ script = "follower_arm_controller.set_position"
    /\ req.id = 1
    /\ req.value = 2048
    /\ packet = <<255, 255, 1, 5, 3, 42, 0, 8, 204>>

\* C2 (as stated): every ping packet written is exactly the 6 bytes
\* [0xFF, 0xFF, id, 0x02, 0x01, 0xFF - ((id + 0x02 + 0x01) mod 256)].
C2_EveryPingPacket ==
    (req.op = "ping" /\ packet # <<>>) =>
        packet = <<255, 255, req.id, 2, 1, 255 - ((req.id + 2 + 1) % 256)>>

\* C2 (amended): every ping packet written in the SCS format, that is every
\* ping but the ROBOTIS-format probe of leader_protocol_test, is exactly those
\* 6 bytes, and for the pinged id the complement of the sum masked to 8 bits
\* is the same byte as 0xFF minus the sum mod 256.
C2_ScsPingPacket ==
    (req.op = "ping" /\ packet # <<>> /\ ~RobotisHeader(packet)) =>
        /\ packet = <<255, 255, req.id, 2, 1, 255 - ((req.id + 2 + 1) % 256)>>
        /\ Not8(req.id + 2 + 1) = 255 - ((req.id + 2 + 1) % 256)

\* C2, its case: the complement-computed ping of motor 6 is FF FF 06 02 01 F6
C2_Witness ==
    /\ script = "leader_diagnostics.check_direct_serial_communication"
    /\ req.id = 6
    /\ packet = <<255, 255, 6, 2, 1, 246>>

\* C3: a ping's received bytes are reported as a success if and only if they
\* have length >= 6, start 0xFF 0xFF and carry the pinged id as third byte.
C3_PingReplyRecognition ==
    (req.op = "ping" /\ packet # <<>>) =>
        (result.ok <=> ValidReply(response, req.id, 6))

\* C3, the failing input: check_power_supply reports a response whose header
\* is FF 00 as received from the pinged id
C3_FailingInput ==
    /\ script = "check_power_supply.send_basic_ping"
    /\ req.id = 1
    /\ response = <<255, 0, 1, 2, 0, 250>>
    /\ result.ok

\* C4: the bytes at positions 2, 4 and 5..n-2 of an encoded packet are the id,
\* the instruction and the parameters it was built from, and the two value
\* bytes of a 2-byte write, reassembled as a read reassembles them, give back
\* the value written (0..65535).
C4_DecodeRecoversFields ==
    (RawPacket /\ ~RobotisHeader(packet)) =>
        /\ packet[3] = req.id
        /\ packet[5] = InstructionOf(req.op)
        /\ req.op = "ping" => Params(packet) = <<>>
        /\ req.op = "read" => Params(packet) = <<req.addr, req.nbytes>>
        /\ (req.op = "write" /\ req.nbytes = 1) =>
              Params(packet) = <<req.addr, req.value>>
        /\ (req.op = "write" /\ req.nbytes = 2) =>
              /\ Len(Params(packet)) = 3
              /\ Params(packet)[1] = req.addr
        /\ (req.op = "write" /\ req.nbytes = 2 /\ req.value \in 0..65535) =>
              Word(Params(packet)[2], Params(packet)[3]) = req.value

\* C4, its case: a 2-byte write of 1000 = 0x03E8 carries E8 03
C4_Witness ==
    /\ script = "direct_reset_follower_motors.write_word"
    /\ req.value = 1000
    /\ packet[7] = 232
    /\ packet[8] = 3

\* C5: a position is extracted from a read response only if the response
\* begins 0xFF 0xFF and its third byte is the id of the motor queried.
C5_PositionOnlyFromValidated ==
    (req.op = "read" /\ packet # <<>> /\ result.value # NoValue) =>
        /\ response[1] = 255
        /\ response[2] = 255
        /\ response[3] = req.id

\* C5, the failing input: follower_move_test takes a position from 8 bytes
\* that carry another motor's id
C5_FailingInput ==
    /\ script = "follower_move_test.test_follower_move"
    /\ req.op = "read"
    /\ Len(response) >= 8
    /\ response[3] # req.id
    /\ result.value # NoValue

\* C6 (as stated): every raw packet uses instruction 0x01 without parameters
\* for ping, 0x02 with (address, byte count) for a read and 0x03 with
\* (address, value bytes) for a write, and its length byte is the number of
\* parameter bytes plus 2.
C6_InstructionAndLength ==
    RawPacket =>
        /\ packet[5] = InstructionOf(req.op)
        /\ packet[4] = Len(Params(packet)) + 2
        /\ req.op = "ping" => Len(Params(packet)) = 0
        /\ req.op = "read" => Len(Params(packet)) = 2
        /\ req.op = "write" => Len(Params(packet)) = 1 + req.nbytes

\* C6 (amended): the same, for every raw packet in the SCS format, that is
\* every packet but the ROBOTIS-format probe of leader_protocol_test.
C6_ScsInstructionAndLength ==
    (RawPacket /\ ~RobotisHeader(packet)) =>
        /\ packet[5] = InstructionOf(req.op)
        /\ packet[4] = Len(Params(packet)) + 2
        /\ req.op = "ping" => Len(Params(packet)) = 0
        /\ req.op = "read" => Len(Params(packet)) = 2 /\ packet[6] = req.addr
        /\ req.op = "write" =>
              Len(Params(packet)) = 1 + req.nbytes /\ packet[6] = req.addr

\* C6, its case: a goal-position write of the teleoperation loop, length 5
C6_Witness ==
    /\ script = "so101_direct_teleoperation.set_follower_positions"
    /\ packet # <<>>
    /\ packet[4] = 5
    /\ packet[5] = 3
    /\ Len(packet) = 9

\* C7: every torque-enable access targets address 40, every goal-position
\* write address 42 and every present-position read address 56, in every
\* script, with raw packets or through the SDK.
C7_FixedRegisterAddresses ==
    /\ req.reg = "torque_enable" => req.addr = 40
    /\ req.reg = "goal_position" => req.addr = 42
    /\ req.reg = "present_position" => req.addr = 56

\* C7, the failing input: so101_fixed_teleoperation writes goals to address 60
\* and so101_direct_teleoperation to address 42
C7_FailingInput ==
    /\ script = "so101_fixed_teleoperation.move_motors"
    /\ req.reg = "goal_position"
    /\ req.addr = 60

(***************************************************************************)
(* Properties of the jog controller and of the threaded teleoperation      *)
(***************************************************************************)
\* C8: every goal position commanded to a motor is an integer in [0, 4095],
\* after any sequence of key presses and whatever the motors report.
C8_GoalsInRange == \A g \in goals : g[2] \in 0..4095

\* C8, the failing input: keys '5', 's', 's' from the rest position 74 of
\* motor 5 command the goal 74 - 50 - 50 = -26
C8_FailingInput ==
    /\ tf_pc = "loop"
    /\ selected_motor = 5
    /\ goals = { <<5, -26>> }

\* C9: every read and every write of teleoperation_active and DEBUG_MODE, by
\* either thread, happens while that thread holds the lock.
C9_FlagsGuardedByLock == \A a \in access : a.locked

\* C9, the failing input: the main loop's status test (line 633) reads both
\* flags while the keyboard thread is inside `with lock`, about to toggle
C9_FailingInput ==
    /\ kb_pc = "space"
    /\ lock = "kb"
    /\ [thread |-> "main", flag |-> "teleoperation_active", op |-> "read",
        locked |-> FALSE] \in access

\* C10: once the keyboard thread has handled ESC (torque disabled, ports
\* closed, its exit handler has run) the main control loop eventually stops.
C10_EscStopsMainLoop == (kb_pc = "exited") ~> (main_pc = "done")

\* C10, the failing input: after ESC the ports are closed and the main loop
\* is in a further iteration, about to send
C10_FailingInput ==
    /\ kb_pc = "exited"
    /\ key = "esc"
    /\ ~ports_open
    /\ main_pc = "send"
    /\ current_teleoperation_active
    /\ position_changed
(***************************************************************************)
(* Properties of the position-reading routines                             *)
(***************************************************************************)
\* C11: a failed read of one motor (communication error or exception) never
\* aborts the read of the remaining motors: every call of a position-reading
\* routine returns, and the list it returns has exactly one entry per motor
\* id, in id order, the reading for a motor that answered and 2048 for a
\* motor whose read failed.
C11_OneEntryPerMotor ==
    ~ReadIdle =>
        /\ rd_status = "returned"
        /\ Len(rd_positions) = Cardinality(MOTOR_IDS)
        /\ \A i \in MOTOR_IDS :
              rd_positions[i] = IF rd_outcomes[i].kind = "ok"
                                THEN rd_outcomes[i].position
                                ELSE CENTER_POSITION

\* C11, failing input: read2ByteTxRx raises for motor 3 only, inside
\* so101_teleoperation.read_motor_positions; the exception leaves the routine
\* and motors 4..6 are never read.
C11_FailingInput ==
    /\ rd_script = "so101_teleoperation.read_motor_positions"
    /\ rd_outcomes # <<>>
    /\ rd_outcomes[3].kind = "exception"
    /\ \A i \in MOTOR_IDS \ {3} : rd_outcomes[i].kind = "ok"
    /\ rd_status = "raised"
    /\ rd_positions = <<>>

(***************************************************************************)
(* Properties of the teleoperation main loops                              *)
(***************************************************************************)
\* C12: the loop applies new_smoothed = alpha*reading + (1-alpha)*old_smoothed
\* with a constant alpha in (0,1), so after any number of iterations every
\* smoothed position lies between the minimum and the maximum of the initial
\* leader reading and the leader readings taken so far for that motor.
C12_SmoothedWithinReadings ==
    loop_script # "none" =>
        \A i \in LoopMotors :
            /\ \E lo \in leader_readings[i] : FloatAtLeast(smoothed_positions[i], lo)
            /\ \E hi \in leader_readings[i] : FloatAtMost(smoothed_positions[i], hi)

\* C12, failing input: the leader of so101_teleoperation stands still at 3 from
\* the initial reading on; 0.3 * 3 + (1 - 0.3) * 3 is 2.9999999999999996 in
\* float arithmetic, below every reading, and the follower is sent 2.
C12_FailingInput ==
    /\ loop_script = "so101_teleoperation.main"
    /\ iterations = 1
    /\ \A i \in LoopMotors :
          /\ leader_readings[i] = {3}
          /\ ~FloatAtLeast(smoothed_positions[i], 3)
          /\ follower_positions[i] = 2

\* C13: SPACE toggles teleoperation off: from the moment the keyboard thread
\* has set teleoperation_active to False until it sets it to True again, the
\* main control loop writes no goal position to the follower.  (The main loop
\* has just written when it stands after the send with the flag accesses of
\* set_follower_positions as its last step.)
C13_NoGoalWriteWhilePaused ==
    (main_pc = "status" /\ access = SetFollowerAccess("main"))
        => teleoperation_active

\* C13, failing input: SPACE is pressed after the main loop sampled the flag
\* (line 602) and before it reaches set_follower_positions (line 627); the
\* iteration in flight still sends the goal positions with the flag False.
C13_FailingInput ==
    /\ main_pc = "status"
    /\ access = SetFollowerAccess("main")
    /\ current_teleoperation_active
    /\ position_changed
    /\ ~teleoperation_active
    /\ key = "space"
    /\ kb_pc = "poll"

(***************************************************************************)
(* Properties of the exit paths                                            *)
(***************************************************************************)
\* C14: torque is disabled on all motors before exit: on every path that
\* leaves an interactive control loop with the port open, a torque-disable
\* command (0 written to Torque_Enable, register 40) is issued to each of
\* motors 1..6 before the follower port is closed, and the port is closed
\* afterwards.
C14_TorqueOffBeforeClose ==
    ex_script # "none" =>
        \E c \in 1..Len(ex_log) :
              /\ ex_log[c].op = "close" /\ ex_log[c].port = "follower"
              /\ \A id \in MOTOR_IDS :
                    \E k \in 1..(c - 1) :
                        /\ ex_log[k].op = "write"
                        /\ ex_log[k].id = id
                        /\ ex_log[k].address = ADDR_TORQUE_ENABLE
                        /\ ex_log[k].value = 0

\* C14, failing input: ESC in so101_teleoperation with every motor answering;
\* disable_all_motors writes 0 to address 50, no write reaches Torque_Enable
\* and the ports are closed with the torque still on.
C14_FailingInput ==
    /\ ex_script = "so101_teleoperation.main"
    /\ ex_path = "esc"
    /\ \A k \in 1..Len(ex_log) :
          ex_log[k].op = "write" => ex_log[k].ok /\ ex_log[k].address = 50
    /\ \E k \in 1..Len(ex_log) : ex_log[k].op = "close"

(***************************************************************************)
(* Properties of calibrate_offset                                          *)
(***************************************************************************)
\* C15: in so101_direct_teleoperation, immediately after calibrate_offset ran,
\* for every motor the stored offset plus the leader position it just read
\* equals 2048, so the follower target computed for a leader standing at its
\* calibration-time position is 2048.
C15_FollowerStartsAtCenter ==
    cal_script = "so101_direct_teleoperation.calibrate_offset" =>
        LET leader_positions == ReadGuarded(cal_leader, <<>>).positions
        IN  \A i \in LoopMotors :
                /\ position_offsets[i] + leader_positions[i] = 2048
                /\ FollowerTarget(FloatFromInt(leader_positions[i]),
                                  position_offsets[i]) = 2048

\* C15, witness: calibrate_offset ran with the leader away from the centre,
\* one motor at 1000 and one at 0, and stored non-zero offsets.
C15_Witness ==
    /\ cal_script = "so101_direct_teleoperation.calibrate_offset"
    /\ cal_status = "returned"
    /\ cal_leader[1] = [kind |-> "ok", position |-> 1000]
    /\ cal_leader[2] = [kind |-> "ok", position |-> 0]
    /\ position_offsets[1] = 1048
    /\ position_offsets[2] = 2048

\* C16: in so101_fixed_teleoperation, calibrate_offset computes offsets and
\* sets calibration_done only from a pair of leader/follower readings in which
\* every motor read succeeded; readings in which a failed read was replaced by
\* the default centre value are rejected.
C16_CalibratesFromSuccessfulReads ==
    (cal_script = "so101_fixed_teleoperation.calibrate_offset" /\ cal_status = "True")
        => \A i \in LoopMotors : cal_leader[i].kind = "ok" /\ cal_follower[i].kind = "ok"

\* C16, failing input: the read of leader motor 1 fails and arrives as 2048,
\* every other read succeeds with 1000; the attempt is taken at once and the
\* offset of motor 1 is computed from the fallback value.
C16_FailingInput ==
    /\ cal_script = "so101_fixed_teleoperation.calibrate_offset"
    /\ cal_status = "True"
    /\ cal_attempt = 1
    /\ calibration_done
    /\ cal_leader[1].kind = "comm_error"
    /\ cal_leader[2] = [kind |-> "ok", position |-> 1000]
    /\ \A i \in LoopMotors : cal_follower[i] = [kind |-> "ok", position |-> 1000]
    /\ position_offsets[1] = 1000 - 2048
    /\ position_offsets[2] = 0

(***************************************************************************)
(* Properties of direct_reset_follower_motors                              *)
(***************************************************************************)
\* C17: a motor is listed among the successfully reset motors only if every
\* register write of its reset sequence was acknowledged by a status packet
\* from that motor.
C17_ListedOnlyIfAllWritesAcked ==
    (rm_writes # <<>> /\ \E k \in 1..Len(reset_motors) : reset_motors[k] = rm_motor)
        => \A w \in 1..Len(rm_writes) : rm_writes[w].acked

\* C17, failing input: motor 1 answers no write of the reset sequence except
\* the last one (torque enable); reset_motor returns True and motor 1 is
\* listed.
C17_FailingInput ==
    /\ rm_motor = 1
    /\ reset_motors = <<1>>
    /\ Len(rm_writes) = Len(ResetWrites)
    /\ \A w \in 1..Len(rm_writes) : rm_writes[w].acked <=> w = Len(rm_writes)

(***************************************************************************)
(* Properties of the keyboard controller                                   *)
(***************************************************************************)
\* C18: torque must be enabled before motors move: torque_enabled starts
\* False, and after any sequence of key presses no Goal_Position write (jog
\* or home) is issued while torque_enabled is False.
C18_NoMoveWithoutTorque ==
    /\ ctf_pc = "start" => ~ctf_torque_enabled
    /\ \A k \in 1..Len(ctf_writes) :
          ctf_writes[k].register = "Goal_Position" => ctf_writes[k].torque_enabled

\* C18, witness: torque is off, SPACE and the jog key q are held in the same
\* pass: the six Torque_Enable writes come first and the jog of shoulder_pan
\* is written with torque_enabled already True.
C18_Witness ==
    /\ ctf_pc = "loop"
    /\ ctf_torque_enabled
    /\ Len(ctf_writes) = Len(CTF_Motors) + 1
    /\ ctf_writes[1].register = "Torque_Enable"
    /\ ctf_writes[Len(ctf_writes)] =
           CTF_Write("Goal_Position", "shoulder_pan", 100 + CTF_STEP_SIZE, TRUE)

(***************************************************************************)
(* Properties of the main loop of so101_direct_teleoperation               *)
(***************************************************************************)
\* some motor's smoothed position is more than 5 away from the remembered one
C19_MovedMoreThan5(smoothed, remembered) ==
    \E i \in LoopMotors :
        \/ FloatLess(FloatAdd(remembered[i], FloatFromInt(5)), smoothed[i])
        \/ FloatLess(FloatAdd(smoothed[i], FloatFromInt(5)), remembered[i])

\* C19: in so101_direct_teleoperation the main loop sends follower positions
\* in an iteration if and only if teleoperation was sampled active and at
\* least one motor's smoothed position differs by more than 5 from its value
\* at the last send; previous_positions changes only in iterations that send
\* (and then becomes the smoothed positions), and the smoothed positions are
\* updated from the leader reading in every iteration, paused or not.
C19_SendsIffActiveAndMoved ==
    [][(loop_script = "so101_direct_teleoperation.main" /\ iterations' = iterations + 1)
         => LET sent == follower_positions' # <<>>
            IN  /\ sent <=> (sampled_active'
                               /\ C19_MovedMoreThan5(smoothed_positions', previous_positions))
                /\ previous_positions' =
                       (IF sent THEN smoothed_positions' ELSE previous_positions)
                /\ \E leader_positions \in LeaderReadings :
                      \A i \in LoopMotors :
                          smoothed_positions'[i] =
                              Smooth(FloatLiteral_0_2, leader_positions[i],
                                     smoothed_positions[i])]_vars

\* C19, witness: after an earlier send (previous_positions is no longer the
\* whole-number initial reading) an iteration finds teleoperation paused:
\* nothing is sent although the smoothed positions moved on by more than 5,
\* and previous_positions still holds the positions of the last send.
C19_Witness ==
    /\ loop_script = "so101_direct_teleoperation.main"
    /\ iterations >= 2
    /\ ~sampled_active
    /\ follower_positions = <<>>
    /\ \E i \in LoopMotors : ~FloatIsWhole(previous_positions[i])
    /\ C19_MovedMoreThan5(smoothed_positions, previous_positions)

(***************************************************************************)
(* Properties of power_cycle_motors                                        *)
(***************************************************************************)
C20_Responsive == {responsive_motors[i] : i \in DOMAIN responsive_motors}

\* the places in pcm_sent of the commands of one cycle to one motor
C20_Sent(cycle, motor_id, enable) ==
    {k \in DOMAIN pcm_sent : pcm_sent[k] = PCM_Command(cycle, motor_id, enable)}

\* in each cycle OFF goes to every responsive motor before any ON of that
\* cycle, and only responsive motors are addressed, in cycles 1..5 in order
C20_OffBeforeOn ==
    /\ \A k \in DOMAIN pcm_sent :
          /\ pcm_sent[k].motor_id \in C20_Responsive
          /\ pcm_sent[k].cycle \in 1..PCM_cycles
          /\ k > 1 => pcm_sent[k - 1].cycle <= pcm_sent[k].cycle
          /\ pcm_sent[k].enable =>
                \A m \in C20_Responsive :
                    \E j \in 1..(k - 1) : pcm_sent[j] = PCM_Command(pcm_sent[k].cycle, m, FALSE)
    /\ \A c \in 1..PCM_cycles, m \in MOTOR_IDS, e \in BOOLEAN :
          Cardinality(C20_Sent(c, m, e)) <= 1

\* exactly 5 cycles went out and the last command to each responsive motor
\* is ON
C20_FiveCycles ==
    /\ \A c \in 1..PCM_cycles, m \in C20_Responsive, e \in BOOLEAN :
          Cardinality(C20_Sent(c, m, e)) = 1
    /\ \A m \in C20_Responsive :
          \E k \in DOMAIN pcm_sent :
              /\ pcm_sent[k].motor_id = m /\ pcm_sent[k].enable
              /\ \A j \in (k + 1)..Len(pcm_sent) : pcm_sent[j].motor_id # m

\* the port is closed on every path after it was opened
C20_PortClosed ==
    /\ pcm_pc = "done" => pcm_port = (IF pcm_path = "open_failed" THEN "none" ELSE "closed")
    /\ pcm_pc # "done" /\ pcm_pc # "start" => pcm_port = "open"

C21_Baudrates ==
    IF sw_script = "test_baudrates" THEN TB_baudrates
    ELSE IF sw_script = "test_speeds" THEN TS_baudrates
    ELSE LD_baudrates

\* C21: in the baud-rate sweep scripts an error at one baud rate does not
\* stop the sweep (the baud rates of the list are attempted in order), and
\* the serial port opened for one baud rate is closed before the port is
\* opened for the next one, also when a write or read raises after the port
\* was opened; at most one handle on the port is open at any time.
C21_ClosedBeforeNextOpen ==
    /\ sw_attempted = SubSeq(C21_Baudrates, 1, sw_index)
    /\ sw_pc = "open" => sw_open = {}
    /\ Cardinality(sw_open) <= 1

\* C21, failing input: test_baudrates opened the port at 1000000 baud, a
\* write raised, and the loop is about to open the port at 500000 baud with
\* the first handle still open.
C21_FailingInput ==
    /\ sw_script = "test_baudrates"
    /\ sw_pc = "open"
    /\ sw_attempted = <<1000000>>
    /\ sw_open = {1}

(***************************************************************************)
(* Properties of the exchanges on the follower port                        *)
(***************************************************************************)
\* C22: in the threaded direct teleoperation script the request/response
\* exchanges on the follower serial port are sequential: the keyboard thread
\* and the main control loop are never both between writing a packet to the
\* follower port and draining its response, so no thread reads a response
\* that belongs to a packet the other thread sent.
C22_ExchangesSequential ==
    /\ ~(fp_in_exchange["main"] /\ fp_in_exchange["kb"])
    /\ fp_read.got \subseteq {fp_read.thread}

\* C22, failing input: R is pressed while the main loop is inside
\* set_follower_positions; both threads have written a packet, and the main
\* loop then drains the response to the keyboard thread's packet.
C22_FailingInput ==
    /\ fp_op["main"] = "set_follower_positions"
    /\ fp_op["kb"] = "set_follower_positions"
    /\ fp_in_exchange["kb"]
    /\ ~fp_in_exchange["main"]
    /\ fp_read = [thread |-> "main", got |-> {"main", "kb"}]

====
